---- MODULE Spec2Model ----
(***************************************************************************)
(* clipgen: timestamp parsing, file naming and spreadsheet extraction.     *)
(*                                                                         *)
(* A Python str is modelled as a sequence of one-character strings, so     *)
(* that slicing, find, replace, split and strip are computed character by  *)
(* character as the interpreter does.  Indices kept in variables are the   *)
(* 0-based indices of the source.                                          *)
(***************************************************************************)
EXTENDS Integers, Sequences, FiniteSets, TLC

VARIABLES
    \* the function being run and the position in it; what warning_print printed
    pc, warnings,
    \* utils.parse_timestamps
    cell_value, raw_times, i, parsed_timestamps, skipped_timestamps,
    \* utils.sanitize_filename
    text, sanitized, calls,
    \* files.get_unique_filename and the files of the working directory
    fs, base, filename, step, checked, returned, all_created,
    \* the worksheet: get_all_values(), col_count, spreadsheet.title
    sheet_data, col_count, title,
    \* spreadsheet.get_num_participants
    header_row, num_participants,
    \* spreadsheet.generate_list and the strategies it dispatches to
    mode, range_start, range_end, id_cell, observation_cell, category_cell,
    study_name, line_index, timestamps, extracted,
    \* what the caller asks generate_list for, and the selection in progress
    skip_prompts, line_numbers, cell_specs, yn, categories, selected_categories,
    valid_lines, spec_index, outcomes,
    \* clipgen.process_clips and run_ffmpeg
    clips_list, clip_index, clip, pair_index, base_video, vid_name, duration,
    file_length, videos_generated, videos_skipped, missing_videos, diagnostics,
    requests, cuts, VERBOSE, summary,
    \* spreadsheet.browse_spreadsheet
    first_data_row, last_data_row, current_row, user_input, displayed

parseVars == <<cell_value, raw_times, i, parsed_timestamps, skipped_timestamps>>

sanitizeVars == <<text, sanitized, calls>>

filesVars == <<fs, base, filename, step, checked, returned, all_created>>

sheetVars ==
    <<sheet_data, col_count, title, header_row, num_participants, mode, range_start,
      range_end, id_cell, observation_cell, category_cell, study_name, line_index,
      timestamps, extracted>>

selectVars ==
    <<skip_prompts, line_numbers, cell_specs, yn, categories, selected_categories,
      valid_lines, spec_index, outcomes>>

runVars ==
    <<clips_list, clip_index, clip, pair_index, base_video, vid_name, duration,
      file_length, videos_generated, videos_skipped, missing_videos, diagnostics,
      requests, cuts, VERBOSE, summary>>

browseVars == <<first_data_row, last_data_row, current_row, user_input, displayed>>

vars ==
    <<pc, warnings, parseVars, sanitizeVars, filesVars, sheetVars, selectVars, runVars,
      browseVars>>

-----------------------------------------------------------------------------
(* Bounds of the explored inputs *)

\* longest cell text enumerated exhaustively over ParseAlphabet
MaxCellLen == 4

-----------------------------------------------------------------------------
(* Python str primitives *)

Digits == {"0", "1", "2", "3", "4", "5", "6", "7", "8", "9"}

isdigit(c) == c \in Digits

DigitVal(c) ==
    CASE c = "0" -> 0 [] c = "1" -> 1 [] c = "2" -> 2 [] c = "3" -> 3
      [] c = "4" -> 4 [] c = "5" -> 5 [] c = "6" -> 6 [] c = "7" -> 7
      [] c = "8" -> 8 [] c = "9" -> 9

DigitChar(n) ==
    CASE n = 0 -> "0" [] n = 1 -> "1" [] n = 2 -> "2" [] n = 3 -> "3"
      [] n = 4 -> "4" [] n = 5 -> "5" [] n = 6 -> "6" [] n = 7 -> "7"
      [] n = 8 -> "8" [] n = 9 -> "9"

\* str.lower() on one character (the upper-case letters the inputs use)
LowerChar(c) ==
    CASE c = "B" -> "b" [] c = "P" -> "p" [] c = "G" -> "g" [] c = "N" -> "n"
      [] c = "J" -> "j" [] c = "Q" -> "q" [] c = "U" -> "u"
      [] OTHER -> c

lower(s) == [k \in 1..Len(s) |-> LowerChar(s[k])]

Whitespace == {" "}

\* s.replace(c, r) for a one-character pattern c and any replacement r
RECURSIVE replace(_, _, _)
replace(s, c, r) ==
    IF s = <<>> THEN <<>>
    ELSE (IF Head(s) = c THEN r ELSE <<Head(s)>>) \o replace(Tail(s), c, r)

Least(S) == CHOOSE k \in S : \A j \in S : k <= j

Greatest(S) == CHOOSE k \in S : \A j \in S : k >= j

\* s.find(c): 0-based index of the first c, -1 when absent
find(s, c) ==
    LET hits == {k \in 1..Len(s) : s[k] = c}
    IN IF hits = {} THEN -1 ELSE Least(hits) - 1

\* s.rfind(c): 0-based index of the last c, -1 when absent
rfind(s, c) ==
    LET hits == {k \in 1..Len(s) : s[k] = c}
    IN IF hits = {} THEN -1 ELSE Greatest(hits) - 1

\* s.find(sub) for a substring sub
findSub(s, sub) ==
    LET hits == {k \in 1..(Len(s) - Len(sub) + 1) : SubSeq(s, k, k + Len(sub) - 1) = sub}
    IN IF hits = {} THEN -1 ELSE Least(hits) - 1

\* s[lo:hi] with Python's treatment of negative and out-of-range indices
ClampIndex(n, k) ==
    LET m == IF k < 0 THEN n + k ELSE k
    IN IF m < 0 THEN 0 ELSE IF m > n THEN n ELSE m

slice(s, lo, hi) ==
    LET a == ClampIndex(Len(s), lo)
        b == ClampIndex(Len(s), hi)
    IN SubSeq(s, a + 1, b)

\* s.rstrip(chars), s.lstrip(chars), s.strip()
RECURSIVE rstrip(_, _)
rstrip(s, chars) ==
    IF s # <<>> /\ s[Len(s)] \in chars THEN rstrip(SubSeq(s, 1, Len(s) - 1), chars)
    ELSE s

RECURSIVE lstrip(_, _)
lstrip(s, chars) ==
    IF s # <<>> /\ Head(s) \in chars THEN lstrip(Tail(s), chars)
    ELSE s

strip(s) == rstrip(lstrip(s, Whitespace), Whitespace)

\* s.split(): the maximal runs of non-whitespace characters, in order
RECURSIVE splitFrom(_, _, _)
splitFrom(s, k, cur) ==
    IF k > Len(s) THEN (IF cur = <<>> THEN <<>> ELSE <<cur>>)
    ELSE IF s[k] \in Whitespace
         THEN (IF cur = <<>> THEN <<>> ELSE <<cur>>) \o splitFrom(s, k + 1, <<>>)
         ELSE splitFrom(s, k + 1, Append(cur, s[k]))

split(s) == splitFrom(s, 1, <<>>)

\* s.split(c): the fields between occurrences of c, empty fields kept
RECURSIVE splitOnFrom(_, _, _, _)
splitOnFrom(s, c, k, cur) ==
    IF k > Len(s) THEN <<cur>>
    ELSE IF s[k] = c THEN <<cur>> \o splitOnFrom(s, c, k + 1, <<>>)
    ELSE splitOnFrom(s, c, k + 1, Append(cur, s[k]))

splitOn(s, c) == splitOnFrom(s, c, 1, <<>>)

\* all sequences over S of length at most n
RECURSIVE SeqsUpTo(_, _)
SeqsUpTo(S, n) ==
    IF n = 0 THEN {<<>>}
    ELSE LET shorter == SeqsUpTo(S, n - 1)
         IN shorter \cup {Append(s, c) : s \in {t \in shorter : Len(t) = n - 1}, c \in S}

-----------------------------------------------------------------------------
(* datetime.strptime / strftime / timedelta, as add_duration and           *)
(* get_duration use them.  A datetime of the default date 1900-01-01 is    *)
(* the number of seconds since that day's midnight.                        *)

DEFAULT_DURATION_SECONDS == 60

AllDigits(f) == \A k \in 1..Len(f) : isdigit(f[k])

FieldValue(f) ==
    IF Len(f) = 1 THEN DigitVal(f[1]) ELSE 10 * DigitVal(f[1]) + DigitVal(f[2])

\* %M is [0-5]\d|\d ; %S is 6[0-1]|[0-5]\d|\d, and datetime() refuses a second
\* above 59 ; %H is 2[0-3]|[0-1]\d|\d.  The text must be consumed entirely.
FieldOk(f, directive) ==
    /\ Len(f) \in {1, 2}
    /\ AllDigits(f)
    /\ FieldValue(f) <= (IF directive = "%H" THEN 23 ELSE 59)

\* datetime.strptime(data_string, fmt) for fmt in {"%M:%S", "%H:%M:%S"}:
\* ok = FALSE stands for ValueError
strptime(data_string, fmt) ==
    LET f == splitOn(data_string, ":")
    IN IF fmt = "%M:%S"
       THEN IF Len(f) = 2 /\ FieldOk(f[1], "%M") /\ FieldOk(f[2], "%S")
            THEN [ok |-> TRUE,
                  t |-> FieldValue(f[1]) * 60 + FieldValue(f[2])]
            ELSE [ok |-> FALSE, t |-> 0]
       ELSE IF Len(f) = 3 /\ FieldOk(f[1], "%H") /\ FieldOk(f[2], "%M") /\ FieldOk(f[3], "%S")
            THEN [ok |-> TRUE,
                  t |-> FieldValue(f[1]) * 3600 + FieldValue(f[2]) * 60 + FieldValue(f[3])]
            ELSE [ok |-> FALSE, t |-> 0]

TwoDigits(n) == <<DigitChar(n \div 10), DigitChar(n % 10)>>

\* datetime.strftime(fmt): zero-padded fields of the time of day
strftime(t, fmt) ==
    LET hh == TwoDigits((t \div 3600) % 24)
        mm == TwoDigits((t \div 60) % 60)
        ss == TwoDigits(t % 60)
    IN IF fmt = "%M:%S" THEN mm \o <<":">> \o ss
       ELSE hh \o <<":">> \o mm \o <<":">> \o ss

\* the int -1 that add_duration returns on ValueError: a value equal to no str
MinusOne == <<"-1">>

LenFormat(start_time) == IF Len(start_time) <= 5 THEN "%M:%S" ELSE "%H:%M:%S"

\* add_duration with the timedelta forgotten
add_duration_no_delta(start_time) ==
    LET fmt == LenFormat(start_time)
        start_datetime == strptime(start_time, fmt)
    IN IF start_datetime.ok THEN strftime(start_datetime.t, fmt) ELSE MinusOne

\* utils.add_duration
add_duration(start_time) ==
    LET fmt == LenFormat(start_time)
        start_datetime == strptime(start_time, fmt)
    IN IF start_datetime.ok
       THEN strftime(start_datetime.t + DEFAULT_DURATION_SECONDS, fmt)
       ELSE MinusOne

\* video.get_duration: ok = FALSE stands for the None result
get_duration(start_time, end_time) ==
    LET first == LenFormat(start_time)
        second == IF first = "%M:%S" THEN "%H:%M:%S" ELSE "%M:%S"
        try(fmt) ==
            LET s == strptime(start_time, fmt)
                e == strptime(end_time, fmt)
            IN [ok |-> s.ok /\ e.ok, value |-> e.t - s.t]
    IN IF end_time = MinusOne THEN [ok |-> FALSE, value |-> 0]
       ELSE IF try(first).ok THEN try(first)
       ELSE IF try(second).ok THEN try(second)
       ELSE [ok |-> FALSE, value |-> 0]

-----------------------------------------------------------------------------
(* utils.sanitize_filename *)

\* lines 117-122 with ':' left out of the list of removed characters
sanitize_filename_keep_colon(t) ==
    LET t1 == replace(t, "\\", <<"-">>)
        t2 == replace(t1, "/", <<"-">>)
        t3 == replace(t2, "?", <<"_">>)
        r1 == replace(t3, "'", <<>>)
        r2 == replace(r1, "\"", <<>>)
        r3 == replace(r2, ".", <<>>)
        r4 == replace(r3, ">", <<>>)
        r5 == replace(r4, "<", <<>>)
    IN replace(r5, "|", <<>>)

\* lines 117-123: three replacements, then the loop deleting seven characters
sanitize_filename(t) ==
    LET t1 == replace(t, "\\", <<"-">>)
        t2 == replace(t1, "/", <<"-">>)
        t3 == replace(t2, "?", <<"_">>)
        r1 == replace(t3, "'", <<>>)
        r2 == replace(r1, "\"", <<>>)
        r3 == replace(r2, ".", <<>>)
        r4 == replace(r3, ">", <<>>)
        r5 == replace(r4, "<", <<>>)
        r6 == replace(r5, "|", <<>>)
    IN replace(r6, ":", <<>>)

\* sanitize_filename is not being run
SanitizeIdle ==
    /\ text = <<>>
    /\ sanitized = <<>>
    /\ calls = 0

-----------------------------------------------------------------------------
(* files.get_unique_filename, files.truncate_filename *)

FILEFORMAT == <<".", "m", "p", "4">>

MAX_FILENAME_LENGTH == 255

\* str(n) for n >= 0
RECURSIVE str(_)
str(n) == IF n < 10 THEN <<DigitChar(n)>> ELSE str(n \div 10) \o <<DigitChar(n % 10)>>

\* files.truncate_filename, lines 87-93
truncate_filename(name, n) ==
    IF Len(name) > MAX_FILENAME_LENGTH
    THEN IF n > 1
         THEN slice(name, 0, MAX_FILENAME_LENGTH - (1 + Len(str(n)) + Len(FILEFORMAT)))
                 \o <<"-">> \o str(n) \o FILEFORMAT
         ELSE slice(name, 0, MAX_FILENAME_LENGTH - Len(FILEFORMAT)) \o FILEFORMAT
    ELSE name

\* lines 62-67: the next name tried once the current one is found to exist
NextCandidate(name, n) ==
    IF n < 2
    THEN slice(name, 0, findSub(name, FILEFORMAT)) \o <<"-">> \o str(n) \o FILEFORMAT
    ELSE slice(name, 0, rfind(name, "-")) \o <<"-">> \o str(n) \o FILEFORMAT

\* os.path.isfile
isfile(name) == name \in fs

\* get_unique_filename is not being run
FilesIdle ==
    /\ fs = {}
    /\ base = <<>>
    /\ filename = <<>>
    /\ step = 0
    /\ checked = <<>>
    /\ returned = <<>>
    /\ all_created = TRUE

-----------------------------------------------------------------------------
(* The worksheet and the spreadsheet module *)

ID_HEADER == <<"I", "D">>
OBSERVATION_HEADER == <<"O", "b", "s", "e", "r", "v", "a", "t", "i", "o", "n">>
CATEGORY_HEADER == <<"C", "a", "t", "e", "g", "o", "r", "y">>
PARTICIPANT_PREFIXES == {"P", "G"}
NOTES_COLUMN == <<"N", "o", "t", "e", "s">>

\* a cell position: row and col are 1-based as in gspread; None is found = FALSE
None == [found |-> FALSE, row |-> 0, col |-> 0]

\* sheet.find(query): the first cell, row by row, whose value is query
sheet_find(data, query) ==
    LET hits == {rc \in {<<r, c>> : r \in 1..Len(data), c \in 1..Len(data[1])} :
                    data[rc[1]][rc[2]] = query}
        first == CHOOSE rc \in hits :
                    \A other \in hits :
                        rc[1] < other[1] \/ (rc[1] = other[1] /\ rc[2] <= other[2])
    IN IF data = <<>> \/ hits = {} THEN None
       ELSE [found |-> TRUE, row |-> first[1], col |-> first[2]]

\* sheet.row_values(row): the row's values, trailing empty cells left out
RECURSIVE TrimRow(_)
TrimRow(row) ==
    IF row # <<>> /\ row[Len(row)] = <<>> THEN TrimRow(SubSeq(row, 1, Len(row) - 1))
    ELSE row

row_values(data, row) == TrimRow(data[row])

\* spreadsheet.get_num_participants, lines 283-291: the loop from column j on
\* with n counted so far; raised = TRUE stands for the IndexError of
\* header_row[j] past the end of header_row
RECURSIVE CountFrom(_, _, _, _)
CountFrom(row, cols, j, n) ==
    IF j >= cols THEN [raised |-> FALSE, value |-> n]
    ELSE IF j >= Len(row) THEN [raised |-> TRUE, value |-> n]
    ELSE IF Len(row[j + 1]) > 0
         THEN IF row[j + 1][1] \in PARTICIPANT_PREFIXES
              THEN CountFrom(row, cols, j + 1, n + 1)
              ELSE IF row[j + 1] = NOTES_COLUMN
                   THEN [raised |-> FALSE, value |-> n]
                   ELSE CountFrom(row, cols, j + 1, n)
    ELSE CountFrom(row, cols, j + 1, n)

get_num_participants(row, cols) == CountFrom(row, cols, 0, 0)

\* s.replace(sub, r) for a pattern sub of any length
RECURSIVE replaceSub(_, _, _)
replaceSub(s, sub, r) ==
    IF Len(s) < Len(sub) THEN s
    ELSE IF SubSeq(s, 1, Len(sub)) = sub
         THEN r \o replaceSub(SubSeq(s, Len(sub) + 1, Len(s)), sub, r)
         ELSE <<Head(s)>> \o replaceSub(Tail(s), sub, r)

\* utils.normalize_study_name
normalize_study_name(raw_name) ==
    replace(replaceSub(lower(raw_name), <<"s", "t", "u", "d", "y", " ">>,
                       <<"s", "t", "u", "d", "y">>),
            " ", <<"_">>)

\* the issue with its category read from the Observation column
Issue_category_from_observation(data, idc, obs, line, col_index, study) ==
    [cell |-> [row |-> line + 1, col |-> col_index + 1,
               value |-> data[line + 1][col_index + 1]],
     desc |-> data[line + 1][obs.col],
     study |-> study,
     participant |-> data[idc.row][col_index + 1],
     category |-> data[line + 1][obs.col]]

\* spreadsheet.get_line_timestamps lines 635-676: the issue built for the
\* non-empty cell at 0-based (line, col_index)
Issue(data, idc, obs, line, col_index, study) ==
    LET desc_col == obs.col - 1
        category_col == obs.col - 2
        participant_row == idc.row - 1
    IN [cell |-> [row |-> line + 1, col |-> col_index + 1,
                  value |-> data[line + 1][col_index + 1]],
        desc |-> IF desc_col >= 0 /\ desc_col < Len(data[line + 1])
                 THEN data[line + 1][desc_col + 1] ELSE <<>>,
        study |-> study,
        participant |->
            IF /\ participant_row >= 0 /\ participant_row < Len(data)
               /\ col_index < Len(data[participant_row + 1])
            THEN data[participant_row + 1][col_index + 1] ELSE <<>>,
        category |-> IF category_col >= 0 /\ category_col < Len(data[line + 1])
                     THEN data[line + 1][category_col + 1] ELSE <<>>]

\* lines 625-677: the loop over the columns of the row, from col_index on
RECURSIVE LineFrom(_, _, _, _, _, _, _)
LineFrom(data, idc, obs, n, line, study, col_index) ==
    IF col_index >= Len(data[line + 1]) THEN <<>>
    ELSE IF col_index < idc.col
         THEN LineFrom(data, idc, obs, n, line, study, col_index + 1)
    ELSE IF col_index = idc.col + n THEN <<>>
    ELSE IF data[line + 1][col_index + 1] = <<>>
         THEN LineFrom(data, idc, obs, n, line, study, col_index + 1)
    ELSE <<Issue(data, idc, obs, line, col_index, study)>>
            \o LineFrom(data, idc, obs, n, line, study, col_index + 1)

\* spreadsheet.get_line_timestamps, lines 616-685
get_line_timestamps(data, idc, obs, n, line, study) ==
    IF line < 0 \/ line >= Len(data) THEN <<>>
    ELSE LineFrom(data, idc, obs, n, line, study, 0)

\* generate_list lines 165-174: the range request is refused
RangeRefused(start, end, max_row) ==
    \/ start < 1 \/ end < 1
    \/ start > max_row \/ end > max_row
    \/ start > end

\* no worksheet is being read
SheetIdle ==
    /\ sheet_data = <<>>
    /\ col_count = 0
    /\ title = <<>>
    /\ header_row = <<>>
    /\ num_participants = 0
    /\ mode = "none"
    /\ range_start = 0
    /\ range_end = 0
    /\ id_cell = None
    /\ observation_cell = None
    /\ category_cell = None
    /\ study_name = <<>>
    /\ line_index = 0
    /\ timestamps = <<>>
    /\ extracted = <<>>

\* no selection is asked for
SelectIdle ==
    /\ skip_prompts = FALSE
    /\ line_numbers = <<>>
    /\ cell_specs = <<>>
    /\ yn = ""
    /\ categories = <<>>
    /\ selected_categories = <<>>
    /\ valid_lines = <<>>
    /\ spec_index = 0
    /\ outcomes = <<>>

\* an issue that has not been read from any cell
NoIssue ==
    [cell |-> [row |-> 0, col |-> 0, value |-> <<>>], desc |-> <<>>, study |-> <<>>,
     participant |-> <<>>, category |-> <<>>, times |-> <<>>]

\* browse_spreadsheet is not being run
BrowseIdle ==
    /\ first_data_row = 0
    /\ last_data_row = 0
    /\ current_row = 0
    /\ user_input = <<>>
    /\ displayed = <<>>

\* process_clips is not being run
RunIdle ==
    /\ clips_list = <<>>
    /\ clip_index = 0
    /\ clip = NoIssue
    /\ pair_index = 0
    /\ base_video = <<>>
    /\ vid_name = <<>>
    /\ duration = 0
    /\ file_length = 0
    /\ videos_generated = 0
    /\ videos_skipped = 0
    /\ missing_videos = {}
    /\ diagnostics = <<>>
    /\ requests = <<>>
    /\ cuts = <<>>
    /\ summary = <<>>

-----------------------------------------------------------------------------
(* utils.parse_timestamps *)

\* line 166: lower-case, separators to blanks, split on whitespace
Tokenize(value) ==
    split(replace(replace(replace(lower(value), "+", <<" ">>), ";", <<" ">>), ",", <<" ">>))

\* lines 174-177: strip, drop trailing commas, drop trailing dashes, '.' -> ':'
CleanToken(tok) ==
    replace(rstrip(rstrip(strip(tok), {","}), {"-"}), ".", <<":">>)

\* the loop body with the digit test before the dash forgotten
Classify_any_dash(tok) ==
    IF tok = <<>> THEN "blank"
    ELSE IF find(tok, "-") >= 0 THEN "pair"
    ELSE IF find(tok, ":") >= 0
         THEN (IF find(tok, ":") > 0 /\ isdigit(tok[find(tok, ":")])
               THEN (IF add_duration(tok) # MinusOne THEN "single" ELSE "dropped")
               ELSE "skipped")
    ELSE "skipped"

\* lines 179-206: what the loop body does with one cleaned token
\*   "blank"   nothing
\*   "pair"    append (before first dash, after first dash)
\*   "single"  append (token, add_duration(token))
\*   "dropped" add_duration returned -1: nothing appended, warning printed
\*   "skipped" appended to skipped_timestamps
Classify(tok) ==
    IF tok = <<>> THEN "blank"
    ELSE IF find(tok, "-") >= 0
         THEN (IF find(tok, "-") > 0 /\ isdigit(tok[find(tok, "-")]) THEN "pair" ELSE "skipped")
    ELSE IF find(tok, ":") >= 0
         THEN (IF find(tok, ":") > 0 /\ isdigit(tok[find(tok, ":")])
               THEN (IF add_duration(tok) # MinusOne THEN "single" ELSE "dropped")
               ELSE "skipped")
    ELSE "skipped"

\* the pair with the end sliced from the dash instead of after it
TimePair_keep_dash(tok) ==
    IF find(tok, "-") > 0 /\ isdigit(tok[find(tok, "-")])
    THEN <<slice(tok, 0, find(tok, "-")), slice(tok, find(tok, "-"), Len(tok))>>
    ELSE <<tok, add_duration(tok)>>

\* line 187 and line 198: the pair appended for a "pair" or "single" token
TimePair(tok) ==
    IF Classify(tok) = "pair"
    THEN <<slice(tok, 0, find(tok, "-")), slice(tok, find(tok, "-") + 1, Len(tok))>>
    ELSE <<tok, add_duration(tok)>>

\* lines 209-218: the consolidated warning for the skipped tokens
SHOWN_SKIPPED == 3

\* the warning listing every skipped token
SkippedWarning_all(skipped) ==
    [message |-> "Skipped unparseable timestamp(s)",
     count   |-> Len(skipped),
     shown   |-> skipped,
     more    |-> 0]

SkippedWarning(skipped) ==
    [message |-> "Skipped unparseable timestamp(s)",
     count   |-> Len(skipped),
     shown   |-> slice(skipped, 0, SHOWN_SKIPPED),
     more    |-> IF Len(skipped) > SHOWN_SKIPPED THEN Len(skipped) - SHOWN_SKIPPED ELSE 0]

AddDurationWarning(tok) ==
    [message |-> "Could not parse single timestamp",
     count   |-> 1,
     shown   |-> <<tok>>,
     more    |-> 0]

\* The cell texts explored: every text over ParseAlphabet up to MaxCellLen,
\* the texts the documentation names, and every one- or two-colon token made
\* of the fields below (minute 59, hour 23, out-of-range and padded fields).
ParseAlphabet == {"1", ":", "-", ".", " ", "a", ",", "B"}

TimeFields ==
    { <<"0">>, <<"0", "0">>, <<"1">>, <<"0", "9">>, <<"1", "0">>, <<"2", "3">>,
      <<"2", "4">>, <<"3", "0">>, <<"5", "8">>, <<"5", "9">>, <<"6", "0">>,
      <<"6", "1">>, <<"1", "0", "0">> }

TimeTokens ==
    {a \o <<":">> \o b : a \in TimeFields, b \in TimeFields}
    \cup {a \o <<":">> \o b \o <<":">> \o c : a \in TimeFields, b \in TimeFields, c \in TimeFields}

Text_foo == <<"f","o","o"," ","1",":","2","3","-","1",":","4","5",","," ","2",":","1","0">>
Text_banana == <<"b","a","n","a","n","a">>
Text_1_23 == <<"1",":","2","3">>
Text_1_23_45 == <<"1",":","2","3",":","4","5">>
Text_range == <<"1",":","2","3","-","4",":","5","6">>
Text_words == <<"u"," ","v",";","w","+","x",","," ","y","-","z"," ","1",".","3","0">>
Text_dashes == <<"a","-","1","-","2"," ","1","2","-","-","3"," ","-","-"," ","1",":","2","-">>

DocumentedTexts ==
    {Text_foo, Text_banana, Text_1_23, Text_1_23_45, Text_range, Text_words, Text_dashes}

CellInputs == SeqsUpTo(ParseAlphabet, MaxCellLen) \cup DocumentedTexts \cup TimeTokens

ParseInit ==
    /\ cell_value \in CellInputs
    /\ raw_times = <<>>
    /\ i = 0
    /\ parsed_timestamps = <<>>
    /\ skipped_timestamps = <<>>

\* parse_timestamps is not being run
ParseIdle ==
    /\ cell_value = <<>>
    /\ raw_times = <<>>
    /\ i = 0
    /\ parsed_timestamps = <<>>
    /\ skipped_timestamps = <<>>

otherThanParse ==
    <<sanitizeVars, filesVars, sheetVars, selectVars, runVars,
      browseVars>>

\* lines 164-169
ParseSplit ==
    /\ pc = "parse_timestamps"
    /\ raw_times' = Tokenize(cell_value)
    /\ pc' = "for"
    /\ UNCHANGED <<cell_value, i, parsed_timestamps, skipped_timestamps, warnings>>
    /\ UNCHANGED otherThanParse

\* lines 171-206: one iteration of the loop over raw_times
ParseToken ==
    /\ pc = "for"
    /\ i < Len(raw_times)
    /\ LET tok == CleanToken(raw_times[i + 1])
           kind == Classify(tok)
       IN /\ raw_times' = [raw_times EXCEPT ![i + 1] = tok]
          /\ parsed_timestamps' =
                IF kind \in {"pair", "single"}
                THEN Append(parsed_timestamps, TimePair(tok))
                ELSE parsed_timestamps
          /\ skipped_timestamps' =
                IF kind = "skipped" THEN Append(skipped_timestamps, tok)
                ELSE skipped_timestamps
          /\ warnings' =
                IF kind = "dropped" THEN Append(warnings, AddDurationWarning(tok))
                ELSE warnings
    /\ i' = i + 1
    /\ UNCHANGED <<cell_value, pc>>
    /\ UNCHANGED otherThanParse

\* lines 208-221: the consolidated warning, then return parsed_timestamps
ParseReturn ==
    /\ pc = "for"
    /\ i = Len(raw_times)
    /\ warnings' =
          IF skipped_timestamps # <<>>
          THEN Append(warnings, SkippedWarning(skipped_timestamps))
          ELSE warnings
    /\ pc' = "return"
    /\ UNCHANGED <<cell_value, raw_times, i, parsed_timestamps, skipped_timestamps>>
    /\ UNCHANGED otherThanParse

ParseNext == ParseSplit \/ ParseToken \/ ParseReturn

SpecParseInit ==
    /\ pc = "parse_timestamps"
    /\ warnings = <<>>
    /\ ParseInit
    /\ SanitizeIdle
    /\ FilesIdle
    /\ SheetIdle
    /\ SelectIdle
    /\ RunIdle
    /\ BrowseIdle
    /\ VERBOSE = TRUE

SpecParse == SpecParseInit /\ [][ParseNext]_vars

-----------------------------------------------------------------------------
(* Properties of parse_timestamps, checked under SpecParse *)

\* the token the loop has just cleaned and classified
LastToken == raw_times[i]

Processed == pc \in {"for", "return"} /\ i > 0

LastPair == parsed_timestamps[Len(parsed_timestamps)]

\* c occurs in s immediately after a digit
DigitBefore(s, c) == \E k \in 2..Len(s) : s[k] = c /\ isdigit(s[k - 1])

\* c occurs in s immediately after or immediately before a digit
AdjacentToDigit(s, c) ==
    \E k \in 1..Len(s) :
        /\ s[k] = c
        /\ \/ (k > 1 /\ isdigit(s[k - 1]))
           \/ (k < Len(s) /\ isdigit(s[k + 1]))

Contains(s, c) == \E k \in 1..Len(s) : s[k] = c

\* C1: for every token accepted as a single timestamp (well-formed MM:SS or
\* HH:MM:SS, no explicit end) the pair appended is (token, end) with
\* get_duration(token, end) = 60.
C1_SynthesizedEndIsStartPlus60 ==
    (Processed /\ Classify(LastToken) = "single") =>
        /\ parsed_timestamps # <<>>
        /\ LastPair[1] = LastToken
        /\ get_duration(LastPair[1], LastPair[2]) = [ok |-> TRUE, value |-> 60]

\* C2 as stated: parse_timestamps("1:23") returns [("1:23", "2:23")] and
\* parse_timestamps("1:23:45") returns one pair whose end is "1:24:45".
C2_EndKeepsTextualForm ==
    pc = "return" =>
        /\ cell_value = Text_1_23 =>
              parsed_timestamps = << <<Text_1_23, <<"2", ":", "2", "3">> >> >>
        /\ cell_value = Text_1_23_45 =>
              /\ Len(parsed_timestamps) = 1
              /\ parsed_timestamps[1][2] = <<"1", ":", "2", "4", ":", "4", "5">>

\* C2 amended: the synthesized end is zero-padded by strftime:
\* parse_timestamps("1:23") returns [("1:23", "02:23")] and
\* parse_timestamps("1:23:45") returns the single pair ("1:23:45", "01:24:45").
C2_EndIsZeroPadded ==
    pc = "return" =>
        /\ cell_value = Text_1_23 =>
              parsed_timestamps = << <<Text_1_23, <<"0", "2", ":", "2", "3">> >> >>
        /\ cell_value = Text_1_23_45 =>
              parsed_timestamps =
                 << <<Text_1_23_45, <<"0", "1", ":", "2", "4", ":", "4", "5">> >> >>

C2_Witness ==
    pc = "return" /\ cell_value = Text_1_23_45 /\ Len(parsed_timestamps) = 1

\* C3 as stated: a cell text with no ':' and no '-' adjacent to a digit
\* yields an empty pair list.
C3_NoColonNoDashNoPairs ==
    (pc = "return" /\ ~Contains(cell_value, ":") /\ ~AdjacentToDigit(cell_value, "-"))
        => parsed_timestamps = <<>>

\* C3 amended: a cell text in which no ':', no '.' and no '-' is adjacent to
\* a digit yields an empty pair list ('.' is rewritten to ':' before the
\* token is classified).
C3_NoDelimiterNextToDigitNoPairs ==
    (/\ pc = "return"
     /\ ~AdjacentToDigit(cell_value, ":")
     /\ ~AdjacentToDigit(cell_value, ".")
     /\ ~AdjacentToDigit(cell_value, "-"))
        => parsed_timestamps = <<>>

C3_Witness ==
    /\ pc = "return"
    /\ Contains(cell_value, ".") /\ Contains(cell_value, "-") /\ Contains(cell_value, "1")
    /\ ~AdjacentToDigit(cell_value, ":")
    /\ ~AdjacentToDigit(cell_value, ".")
    /\ ~AdjacentToDigit(cell_value, "-")
    /\ Len(skipped_timestamps) = 2

\* C4 as stated: parse_timestamps("foo 1:23-1:45, 2:10") returns
\* ("1:23","1:45") then ("2:10","3:10") and records zero skipped tokens.
C4_FooExampleAsDocumented ==
    (pc = "return" /\ cell_value = Text_foo) =>
        /\ parsed_timestamps =
              << << <<"1", ":", "2", "3">>, <<"1", ":", "4", "5">> >>,
                 << <<"2", ":", "1", "0">>, <<"3", ":", "1", "0">> >> >>
        /\ skipped_timestamps = <<>>

\* C4 amended: parse_timestamps("foo 1:23-1:45, 2:10") returns
\* ("1:23","1:45") then ("2:10","03:10"), and records exactly one skipped
\* token, "foo".
C4_FooExampleAsComputed ==
    (pc = "return" /\ cell_value = Text_foo) =>
        /\ parsed_timestamps =
              << << <<"1", ":", "2", "3">>, <<"1", ":", "4", "5">> >>,
                 << <<"2", ":", "1", "0">>, <<"0", "3", ":", "1", "0">> >> >>
        /\ skipped_timestamps = << <<"f", "o", "o">> >>

C4_Witness ==
    pc = "return" /\ cell_value = Text_foo /\ Len(parsed_timestamps) = 2

\* C5: a non-empty cleaned token with no '-' right after a digit and no ':'
\* right after a digit appends no pair and is appended exactly once to
\* skipped_timestamps; "banana" gives no pair and the one skipped token
\* "banana"; the consolidated warning shows the first 3 skipped tokens at
\* most and counts the others.
C5_TokenStep ==
    (/\ pc = "for" /\ i < Len(raw_times)
     /\ CleanToken(raw_times[i + 1]) # <<>>
     /\ ~DigitBefore(CleanToken(raw_times[i + 1]), "-")
     /\ ~DigitBefore(CleanToken(raw_times[i + 1]), ":")
     /\ i' = i + 1)
        => /\ parsed_timestamps' = parsed_timestamps
           /\ skipped_timestamps' = Append(skipped_timestamps, CleanToken(raw_times[i + 1]))

C5_Returned ==
    pc = "return" =>
        /\ cell_value = Text_banana =>
              /\ parsed_timestamps = <<>>
              /\ skipped_timestamps = <<Text_banana>>
        /\ skipped_timestamps = <<>> =>
              \A k \in 1..Len(warnings) : warnings[k].message # "Skipped unparseable timestamp(s)"
        /\ skipped_timestamps # <<>> =>
              LET w == warnings[Len(warnings)]
              IN /\ w.message = "Skipped unparseable timestamp(s)"
                 /\ w.count = Len(skipped_timestamps)
                 /\ Len(w.shown) <= 3
                 /\ Len(w.shown) = 3 \/ Len(w.shown) = Len(skipped_timestamps)
                 /\ \A k \in 1..Len(w.shown) : w.shown[k] = skipped_timestamps[k]
                 /\ w.more = Len(skipped_timestamps) - Len(w.shown)

C5_UnmatchedTokenSkippedOnce == []C5_Returned /\ [][C5_TokenStep]_vars

C5_Witness ==
    /\ pc = "return"
    /\ Len(skipped_timestamps) > 3
    /\ parsed_timestamps # <<>>
    /\ warnings[Len(warnings)].more = 2

-----------------------------------------------------------------------------
(* sanitize_filename applied to a text, and again to what it returned *)

\* longest text enumerated exhaustively over SanitizeAlphabet
MaxTextLen == 3

HandledChars == {"\\", "/", "?", "'", "\"", ".", ">", "<", "|", ":"}

SanitizeAlphabet == HandledChars \cup {"a", "-", "_", "é"}

Text_unsafe ==
    <<"a", "/", "b", "\\", "c", "?", "d", "'", "e", "\"", "f", ".", "g", "<", "h", ">",
      "i", "|", "j", ":", "k">>

SanitizeInputs == SeqsUpTo(SanitizeAlphabet, MaxTextLen) \cup {Text_unsafe}

SanitizeInit ==
    /\ text \in SanitizeInputs
    /\ sanitized = <<>>
    /\ calls = 0

otherThanSanitize ==
    <<parseVars, filesVars, sheetVars, selectVars, runVars, warnings,
      browseVars>>

\* a call of sanitize_filename(text), lines 110-123
SanitizeCall ==
    /\ pc = "sanitize_filename"
    /\ sanitized' = sanitize_filename(text)
    /\ calls' = calls + 1
    /\ pc' = "return"
    /\ UNCHANGED text
    /\ UNCHANGED otherThanSanitize

\* the caller passes the returned text to sanitize_filename once more
SanitizeAgain ==
    /\ pc = "return"
    /\ calls = 1
    /\ text' = sanitized
    /\ pc' = "sanitize_filename"
    /\ UNCHANGED <<sanitized, calls>>
    /\ UNCHANGED otherThanSanitize

SanitizeNext == SanitizeCall \/ SanitizeAgain

SpecSanitizeInit ==
    /\ pc = "sanitize_filename"
    /\ warnings = <<>>
    /\ SanitizeInit
    /\ ParseIdle
    /\ FilesIdle
    /\ SheetIdle
    /\ SelectIdle
    /\ RunIdle
    /\ BrowseIdle
    /\ VERBOSE = TRUE

SpecSanitize == SpecSanitizeInit /\ [][SanitizeNext]_vars

\* what the documentation says becomes of one character
CharImage(c) ==
    IF c \in {"\\", "/"} THEN <<"-">>
    ELSE IF c = "?" THEN <<"_">>
    ELSE IF c \in {"'", "\"", ".", ">", "<", "|", ":"} THEN <<>>
    ELSE <<c>>

RECURSIVE ImageOf(_)
ImageOf(s) == IF s = <<>> THEN <<>> ELSE CharImage(Head(s)) \o ImageOf(Tail(s))

\* C6: sanitize_filename turns backslash and '/' into '-', '?' into '_',
\* deletes ' " . > < | : and leaves every other character as it is; the
\* documented example gives "a-b-c_defghijk"; the result holds none of the
\* ten handled characters; sanitizing a sanitized text changes nothing.
C6_SanitizeFilename ==
    pc = "return" =>
        /\ sanitized = ImageOf(text)
        /\ \A k \in 1..Len(sanitized) : sanitized[k] \notin HandledChars
        /\ text = Text_unsafe =>
              sanitized = <<"a", "-", "b", "-", "c", "_", "d", "e", "f", "g", "h", "i", "j", "k">>
        /\ calls = 2 => sanitized = text

C6_Witness ==
    /\ pc = "return"
    /\ calls = 2
    /\ text = <<"a", "-", "b", "-", "c", "_", "d", "e", "f", "g", "h", "i", "j", "k">>

-----------------------------------------------------------------------------
(* get_unique_filename called repeatedly on one base name, as process_clips *)
(* does for the pairs of an issue; after each call the clip is written     *)
(* under the returned name, or the cut fails and no file is written.       *)

\* short stems are 1..MaxShortStem characters long
MaxShortStem == 2
\* base names are also taken MAX_FILENAME_LENGTH - LengthSlack .. + LengthSlack long
LengthSlack == 2
\* calls of get_unique_filename on the same base name
MaxCalls == 3
\* highest -N suffix among the files that exist before the first call
MaxExistingSuffix == 2

Letters(n) == [k \in 1..n |-> "a"]

Stems ==
    {Letters(n) : n \in 1..MaxShortStem}
    \cup {<<"a", "-", "b">>, <<"a">> \o FILEFORMAT \o <<"b">>}
    \cup {Letters(n) : n \in (MAX_FILENAME_LENGTH - Len(FILEFORMAT) - LengthSlack)
                             ..(MAX_FILENAME_LENGTH - Len(FILEFORMAT) + LengthSlack)}

BaseNames == {st \o FILEFORMAT : st \in Stems}

\* the names that may exist beforehand: the base name and its numbered
\* variants, as far as the file system can hold a name of that length
ExistingPool(b) ==
    {x \in {b} \cup {slice(b, 0, Len(b) - Len(FILEFORMAT)) \o <<"-">> \o str(n) \o FILEFORMAT
                        : n \in 1..MaxExistingSuffix}
       : Len(x) <= MAX_FILENAME_LENGTH}

FilesInit ==
    /\ base \in BaseNames
    /\ fs \in SUBSET ExistingPool(base)
    /\ filename = <<>>
    /\ step = 0
    /\ checked = <<>>
    /\ returned = <<>>
    /\ all_created = TRUE

otherThanFiles ==
    <<parseVars, sanitizeVars, sheetVars, selectVars, runVars, warnings,
      browseVars>>

\* line 59: a call get_unique_filename(base)
UniqueCall ==
    /\ pc = "get_unique_filename"
    /\ Len(returned) < MaxCalls
    /\ filename' = base
    /\ step' = 1
    /\ pc' = "while"
    /\ UNCHANGED <<fs, base, checked, returned, all_created>>
    /\ UNCHANGED otherThanFiles

\* lines 61-68: the name exists, try the next one
UniqueExists ==
    /\ pc = "while"
    /\ isfile(filename)
    /\ filename' = NextCandidate(filename, step)
    /\ step' = step + 1
    /\ UNCHANGED <<fs, base, checked, returned, all_created, pc>>
    /\ UNCHANGED otherThanFiles

\* lines 69-72: the name does not exist: truncate it and return it
UniqueReturn ==
    /\ pc = "while"
    /\ ~isfile(filename)
    /\ checked' = filename
    /\ filename' = truncate_filename(filename, step)
    /\ returned' = Append(returned, filename')
    /\ pc' = "return"
    /\ UNCHANGED <<fs, base, step, all_created>>
    /\ UNCHANGED otherThanFiles

\* clipgen.process_clips lines 999-1007: the cut succeeds and the clip is
\* written under the returned name (ffmpeg -y overwrites)
CreateFile ==
    /\ pc = "return"
    /\ fs' = fs \cup {filename}
    /\ pc' = "get_unique_filename"
    /\ UNCHANGED <<base, filename, step, checked, returned, all_created>>
    /\ UNCHANGED otherThanFiles

\* clipgen.process_clips lines 1008-1009: the cut fails, nothing is written
CutFails ==
    /\ pc = "return"
    /\ all_created' = FALSE
    /\ pc' = "get_unique_filename"
    /\ UNCHANGED <<fs, base, filename, step, checked, returned>>
    /\ UNCHANGED otherThanFiles

FilesNext == UniqueCall \/ UniqueExists \/ UniqueReturn \/ CreateFile \/ CutFails

SpecFilesInit ==
    /\ pc = "get_unique_filename"
    /\ warnings = <<>>
    /\ FilesInit
    /\ ParseIdle
    /\ SanitizeIdle
    /\ SheetIdle
    /\ SelectIdle
    /\ RunIdle
    /\ BrowseIdle
    /\ VERBOSE = TRUE

SpecFiles == SpecFilesInit /\ [][FilesNext]_vars

\* the text between the last '-' and the extension, when name ends with
\* "-<digits><extension>"
HasSuffix(name) ==
    /\ Len(name) > Len(FILEFORMAT)
    /\ SubSeq(name, Len(name) - Len(FILEFORMAT) + 1, Len(name)) = FILEFORMAT
    /\ rfind(name, "-") >= 0
    /\ rfind(name, "-") + 1 < Len(name) - Len(FILEFORMAT)
    /\ AllDigits(SubSeq(name, rfind(name, "-") + 2, Len(name) - Len(FILEFORMAT)))

RECURSIVE NumberOf(_)
NumberOf(digits) ==
    IF digits = <<>> THEN 0
    ELSE 10 * NumberOf(SubSeq(digits, 1, Len(digits) - 1)) + DigitVal(digits[Len(digits)])

\* N for a name ending in -N<extension>, 0 for a name without suffix
SuffixNumber(name) ==
    IF HasSuffix(name)
    THEN NumberOf(SubSeq(name, rfind(name, "-") + 2, Len(name) - Len(FILEFORMAT)))
    ELSE 0

\* the -N suffix (if any) and the extension of a name, and what precedes them
NameEnd(name) ==
    IF HasSuffix(name) THEN SubSeq(name, rfind(name, "-") + 1, Len(name))
    ELSE SubSeq(name, Len(name) - Len(FILEFORMAT) + 1, Len(name))

NameStem(name) == SubSeq(name, 1, Len(name) - Len(NameEnd(name)))

IsPrefix(a, b) == Len(a) <= Len(b) /\ SubSeq(b, 1, Len(a)) = a

\* C7: the name get_unique_filename returns names no existing file, and
\* calls on the same base name, each followed by creating the returned
\* file, return strictly increasing -N suffixes (none, -1, -2, ...).
C7_UniqueNameNeverCollides ==
    pc = "return" =>
        /\ filename \notin fs
        /\ all_created =>
              \A j, k \in 1..Len(returned) :
                  j < k => SuffixNumber(returned[j]) < SuffixNumber(returned[k])

\* C8: when the name found not to exist is longer than 255 characters, the
\* returned name is at most 255 long, ends with the same -N suffix (if
\* any) and extension, and differs only by a shortened stem.
C8_TruncationKeepsSuffix ==
    (pc = "return" /\ Len(checked) > MAX_FILENAME_LENGTH) =>
        /\ Len(filename) <= MAX_FILENAME_LENGTH
        /\ NameEnd(filename) = NameEnd(checked)
        /\ IsPrefix(NameStem(filename), NameStem(checked))
        /\ Len(NameStem(filename)) < Len(NameStem(checked))

-----------------------------------------------------------------------------
(* spreadsheet.get_num_participants on its own *)

MaxHeaderLen == 4
ExtraCols == 1

P01 == <<"P", "0", "1">>
G02 == <<"G", "0", "2">>

HeaderCells == {ID_HEADER, P01, G02, NOTES_COLUMN, OBSERVATION_HEADER, <<>>}

\* the rows row_values can hand over: the row of the ID header, without
\* trailing empty cells
HeaderRows ==
    {row \in SeqsUpTo(HeaderCells, MaxHeaderLen) :
        /\ \E k \in 1..Len(row) : row[k] = ID_HEADER
        /\ row[Len(row)] # <<>>}

ParticipantsInit ==
    /\ header_row \in HeaderRows
    /\ col_count \in Len(header_row)..(Len(header_row) + ExtraCols)
    /\ sheet_data = <<>>
    /\ title = <<>>
    /\ num_participants = 0
    /\ mode = "none"
    /\ range_start = 0
    /\ range_end = 0
    /\ id_cell = None
    /\ observation_cell = None
    /\ category_cell = None
    /\ study_name = <<>>
    /\ line_index = 0
    /\ timestamps = <<>>
    /\ extracted = <<>>

otherThanSheet ==
    <<parseVars, sanitizeVars, filesVars, selectVars, runVars, warnings,
      browseVars>>

\* get_num_participants(header_row, id_cell, col_count) returns its count
ParticipantsReturn ==
    /\ pc = "get_num_participants"
    /\ ~get_num_participants(header_row, col_count).raised
    /\ num_participants' = get_num_participants(header_row, col_count).value
    /\ pc' = "return"
    /\ UNCHANGED <<sheet_data, col_count, title, header_row, mode, range_start,
                   range_end, id_cell, observation_cell, category_cell, study_name,
                   line_index, timestamps, extracted>>
    /\ UNCHANGED otherThanSheet

\* header_row[j] is read past the end of header_row
ParticipantsRaise ==
    /\ pc = "get_num_participants"
    /\ get_num_participants(header_row, col_count).raised
    /\ pc' = "IndexError"
    /\ UNCHANGED sheetVars
    /\ UNCHANGED otherThanSheet

ParticipantsNext == ParticipantsReturn \/ ParticipantsRaise

SpecParticipantsInit ==
    /\ pc = "get_num_participants"
    /\ warnings = <<>>
    /\ ParticipantsInit
    /\ ParseIdle
    /\ SanitizeIdle
    /\ FilesIdle
    /\ SelectIdle
    /\ RunIdle
    /\ BrowseIdle
    /\ VERBOSE = TRUE

SpecParticipants == SpecParticipantsInit /\ [][ParticipantsNext]_vars

\* the headers of row that stand before its first "Notes" header
BeforeNotes(row) ==
    LET notes == {k \in 1..Len(row) : row[k] = NOTES_COLUMN}
    IN IF notes = {} THEN 1..Len(row) ELSE 1..(Least(notes) - 1)

ParticipantHeaders(row) ==
    {k \in BeforeNotes(row) : row[k] # <<>> /\ row[k][1] \in PARTICIPANT_PREFIXES}

\* C10: for every header row and column count, get_num_participants returns
\* the number of headers that start with P or G and stand before the first
\* "Notes" header, also when the header row is shorter than the column count
\* and has no "Notes" header.
C10_CountsParticipantHeaders ==
    pc \in {"return", "IndexError"} =>
        /\ pc = "return"
        /\ num_participants = Cardinality(ParticipantHeaders(header_row))

-----------------------------------------------------------------------------
(* spreadsheet.generate_list, range mode with the range given by the caller *)

MaxDataRows == 2
RangeMargin == 1

Cell_time == <<"1", ":", "0", "0">>
Cell_id == <<"7">>
Cell_category == <<"N", "a", "v">>
Cell_observation == <<"o", "b", "s">>
Cell_note == <<"n">>
Cell_study == <<"S", "t", "u", "d", "y", " ", "1">>
Title_spreadsheet == <<"S", "t", "u", "d", "y", " ", "2">>

Header_full == <<CATEGORY_HEADER, OBSERVATION_HEADER, ID_HEADER, P01, G02, NOTES_COLUMN>>
Header_no_notes == <<CATEGORY_HEADER, OBSERVATION_HEADER, ID_HEADER, P01, G02>>
Header_after_notes == <<CATEGORY_HEADER, OBSERVATION_HEADER, ID_HEADER, P01, NOTES_COLUMN, G02>>
Header_no_participants == <<CATEGORY_HEADER, OBSERVATION_HEADER, ID_HEADER, NOTES_COLUMN>>
Header_no_id == <<CATEGORY_HEADER, OBSERVATION_HEADER, P01, NOTES_COLUMN>>
Header_trailing_empty == <<CATEGORY_HEADER, OBSERVATION_HEADER, ID_HEADER, P01, <<>>>>

SheetHeaders ==
    {Header_full, Header_no_notes, Header_after_notes, Header_no_participants,
     Header_no_id, Header_trailing_empty}

\* a data row under header h with every column filled in
FullRow(h) ==
    [k \in 1..Len(h) |->
        IF h[k] = CATEGORY_HEADER THEN Cell_category
        ELSE IF h[k] = OBSERVATION_HEADER THEN Cell_observation
        ELSE IF h[k] = ID_HEADER THEN Cell_id
        ELSE IF h[k] = NOTES_COLUMN THEN Cell_note
        ELSE IF h[k] = <<>> THEN <<>>
        ELSE Cell_time]

EmptyRow(h) == [k \in 1..Len(h) |-> <<>>]

\* a row above the header row with the study's name in its first cell
TitleRow(h) == [k \in 1..Len(h) |-> IF k = 1 THEN Cell_study ELSE <<>>]

\* get_all_values(): a rectangular grid
SheetsUnder(h) ==
    {top \o <<h>> \o rows :
        top \in {<<>>, <<TitleRow(h)>>, <<EmptyRow(h)>>},
        rows \in SeqsUpTo({FullRow(h), EmptyRow(h)}, MaxDataRows)}

Sheets == UNION {SheetsUnder(h) : h \in SheetHeaders}

GenerateListInit ==
    /\ sheet_data \in Sheets
    /\ col_count \in Len(sheet_data[1])..(Len(sheet_data[1]) + ExtraCols)
    /\ title = Title_spreadsheet
    /\ mode = "range"
    /\ range_start \in (0 - RangeMargin)..(Len(sheet_data) + RangeMargin)
    /\ range_end \in (0 - RangeMargin)..(Len(sheet_data) + RangeMargin)
    /\ header_row = <<>>
    /\ num_participants = 0
    /\ id_cell = None
    /\ observation_cell = None
    /\ category_cell = None
    /\ study_name = <<>>
    /\ line_index = 0
    /\ timestamps = <<>>
    /\ extracted = <<>>

\* spreadsheet.validate_spreadsheet_headers and generate_list lines 62-68
ValidateHeaders ==
    /\ pc = "generate_list"
    /\ LET idc == sheet_find(sheet_data, ID_HEADER)
           obs == sheet_find(sheet_data, OBSERVATION_HEADER)
           cat == sheet_find(sheet_data, CATEGORY_HEADER)
       IN IF ~idc.found \/ ~obs.found \/ ~cat.found
          THEN /\ pc' = "return"
               /\ UNCHANGED <<id_cell, observation_cell, category_cell>>
          ELSE /\ pc' = "get_all_values"
               /\ id_cell' = idc
               /\ observation_cell' = obs
               /\ category_cell' = cat
    /\ timestamps' = <<>>
    /\ UNCHANGED <<sheet_data, col_count, title, header_row, num_participants, mode,
                   range_start, range_end, study_name, line_index, extracted>>
    /\ UNCHANGED otherThanSheet

\* generate_list lines 73-89
CheckRows ==
    /\ pc = "get_all_values"
    /\ IF Len(sheet_data) <= 1
       THEN /\ pc' = "return"
            /\ UNCHANGED study_name
       ELSE /\ pc' = "get_num_participants"
            /\ study_name' = normalize_study_name(IF sheet_data[1][1] = <<>> THEN title
                                                  ELSE sheet_data[1][1])
    /\ UNCHANGED <<sheet_data, col_count, title, header_row, num_participants, mode,
                   range_start, range_end, id_cell, observation_cell, category_cell,
                   line_index, timestamps, extracted>>
    /\ UNCHANGED otherThanSheet

\* generate_list lines 92-99
CountParticipants ==
    /\ pc = "get_num_participants"
    /\ header_row' = row_values(sheet_data, id_cell.row)
    /\ LET counted == get_num_participants(header_row', col_count)
       IN IF counted.raised
          THEN /\ pc' = "IndexError"
               /\ UNCHANGED num_participants
          ELSE /\ num_participants' = counted.value
               /\ pc' = IF counted.value = 0 THEN "return" ELSE "mode"
    /\ UNCHANGED <<sheet_data, col_count, title, mode, range_start, range_end, id_cell,
                   observation_cell, category_cell, study_name, line_index, timestamps,
                   extracted>>
    /\ UNCHANGED otherThanSheet

\* generate_list lines 160-177
RangeValidate ==
    /\ pc = "mode"
    /\ mode = "range"
    /\ IF RangeRefused(range_start, range_end, Len(sheet_data))
       THEN /\ pc' = "return"
            /\ UNCHANGED line_index
       ELSE /\ pc' = "generate_range_timestamps"
            /\ line_index' = range_start - 1
    /\ UNCHANGED <<sheet_data, col_count, title, header_row, num_participants, mode,
                   range_start, range_end, id_cell, observation_cell, category_cell,
                   study_name, timestamps, extracted>>
    /\ UNCHANGED otherThanSheet

\* generate_range_timestamps lines 703-705: one turn of the loop
RangeLine ==
    /\ pc = "generate_range_timestamps"
    /\ line_index < range_end
    /\ timestamps' = timestamps \o get_line_timestamps(sheet_data, id_cell,
                        observation_cell, num_participants, line_index, study_name)
    /\ extracted' = Append(extracted, line_index)
    /\ line_index' = line_index + 1
    /\ UNCHANGED <<pc, sheet_data, col_count, title, header_row, num_participants, mode,
                   range_start, range_end, id_cell, observation_cell, category_cell,
                   study_name>>
    /\ UNCHANGED otherThanSheet

\* generate_range_timestamps line 706 and generate_list's return
RangeReturn ==
    /\ pc = "generate_range_timestamps"
    /\ line_index >= range_end
    /\ pc' = "return"
    /\ UNCHANGED sheetVars
    /\ UNCHANGED otherThanSheet

GenerateListNext ==
    \/ ValidateHeaders
    \/ CheckRows
    \/ CountParticipants
    \/ RangeValidate
    \/ RangeLine
    \/ RangeReturn

SpecGenerateListInit ==
    /\ pc = "generate_list"
    /\ warnings = <<>>
    /\ GenerateListInit
    /\ ParseIdle
    /\ SanitizeIdle
    /\ FilesIdle
    /\ SelectIdle
    /\ RunIdle
    /\ BrowseIdle
    /\ VERBOSE = TRUE

SpecGenerateList == SpecGenerateListInit /\ [][GenerateListNext]_vars

\* the 0-based rows start-1 .. end-1, in order
RowsOfRange(start, end) == [k \in 1..(end - start + 1) |-> start - 2 + k]

\* C9: a range with start > end, a bound below 1 or a bound above the number
\* of rows is refused as a whole: generate_list returns an empty list and the
\* row extractor is never called; a range that passes the validation has
\* exactly its rows start..end extracted, in order.
C9_RangeRefusedOrExtractedInOrder ==
    pc \in {"return", "IndexError"} =>
        /\ RangeRefused(range_start, range_end, Len(sheet_data)) =>
              pc = "return" /\ timestamps = <<>> /\ extracted = <<>>
        /\ (pc = "return" /\ num_participants > 0
                /\ ~RangeRefused(range_start, range_end, Len(sheet_data))) =>
              extracted = RowsOfRange(range_start, range_end)

-----------------------------------------------------------------------------
(* spreadsheet.generate_list in each of its modes: batch, line, range,      *)
(* category, cell and select, on sheets of several layouts                  *)

\* Python's None for a column index
NoColumn == 0 - 1

\* spreadsheet.find_participant_column lines 355-368: the scan from the
\* 0-based column col_idx on
RECURSIVE FindColumnFrom(_, _, _)
FindColumnFrom(row, participant_id, col_idx) ==
    IF col_idx >= Len(row) THEN NoColumn
    ELSE LET header_value == strip(row[col_idx + 1])
         IN IF lower(header_value) = lower(participant_id) THEN col_idx
            ELSE IF header_value # <<>> /\ header_value[1] \in PARTICIPANT_PREFIXES
                 THEN IF lower(header_value) = lower(participant_id) THEN col_idx
                      ELSE IF header_value = NOTES_COLUMN THEN NoColumn
                      ELSE FindColumnFrom(row, participant_id, col_idx + 1)
            ELSE FindColumnFrom(row, participant_id, col_idx + 1)

find_participant_column(row, idc, participant_id) ==
    FindColumnFrom(row, participant_id, idc.col - 1)

\* generate_cell_timestamps lines 415-444: the issue of the cell at the
\* 0-based (row_idx, col_idx)
CellIssue(data, idc, obs, study, participant_id, row_idx, col_idx) ==
    LET desc_col == obs.col - 1
        category_col == obs.col - 2
        participant_row == idc.row - 1
    IN [cell |-> [row |-> row_idx + 1, col |-> col_idx + 1,
                  value |-> data[row_idx + 1][col_idx + 1]],
        desc |-> IF desc_col >= 0 /\ desc_col < Len(data[row_idx + 1])
                 THEN data[row_idx + 1][desc_col + 1] ELSE <<>>,
        study |-> study,
        participant |->
            IF /\ participant_row >= 0 /\ participant_row < Len(data)
               /\ col_idx < Len(data[participant_row + 1])
               /\ data[participant_row + 1][col_idx + 1] # <<>>
            THEN data[participant_row + 1][col_idx + 1] ELSE participant_id,
        category |-> IF category_col >= 0 /\ category_col < Len(data[row_idx + 1])
                     THEN data[row_idx + 1][category_col + 1] ELSE <<>>]

\* generate_cell_timestamps lines 389-412: what becomes of one specification
CellOutcome(data, idc, row, spec) ==
    LET col_idx == find_participant_column(row, idc, spec[1])
        row_idx == spec[2] - 1
    IN [col_idx |-> col_idx,
        result |->
            IF col_idx = NoColumn THEN "participant not found"
            ELSE IF row_idx < 0 \/ row_idx >= Len(data) THEN "row out of range"
            ELSE IF col_idx >= Len(data[row_idx + 1]) THEN "column out of range"
            ELSE IF strip(data[row_idx + 1][col_idx + 1]) = <<>> THEN "empty"
            ELSE "issue"]

\* the category text of the 0-based row with the blanks around it kept
RowCategory_untrimmed(data, cat, row_idx) == data[row_idx + 1][cat.col]

\* lines 487 and 514: the category text of the 0-based row, trimmed
RowCategory(data, cat, row_idx) == strip(data[row_idx + 1][cat.col])

Contains_seq(seq, x) == \E n \in 1..Len(seq) : seq[n] = x

\* collect_categories lines 486-489: the loop from the 0-based row on
RECURSIVE CollectFrom(_, _, _, _)
CollectFrom(data, cat, row_idx, found) ==
    IF row_idx >= Len(data) THEN found
    ELSE LET category == RowCategory(data, cat, row_idx)
         IN IF category # <<>> /\ ~Contains_seq(found, category)
            THEN CollectFrom(data, cat, row_idx + 1, Append(found, category))
            ELSE CollectFrom(data, cat, row_idx + 1, found)

collect_categories(data, idc, cat) == CollectFrom(data, cat, cat.row, <<>>)

\* generate_line_timestamps lines 542-548: the line numbers kept
RECURSIVE ValidLines(_, _)
ValidLines(numbers, max_row) ==
    IF numbers = <<>> THEN <<>>
    ELSE IF Head(numbers) < 1 \/ Head(numbers) > max_row
         THEN ValidLines(Tail(numbers), max_row)
         ELSE <<Head(numbers)>> \o ValidLines(Tail(numbers), max_row)

\* the entries of seq at the positions in S, in the order of seq
RECURSIVE Pick(_, _, _)
Pick(seq, S, n) ==
    IF n > Len(seq) THEN <<>>
    ELSE IF n \in S THEN <<seq[n]>> \o Pick(seq, S, n + 1)
    ELSE Pick(seq, S, n + 1)

otherThanSelect ==
    <<parseVars, sanitizeVars, filesVars, runVars, warnings,
      browseVars>>

\* the call of get_line_timestamps on the 0-based row, and its result kept
ExtractLine(row_idx) ==
    /\ timestamps' = timestamps \o get_line_timestamps(sheet_data, id_cell,
                        observation_cell, num_participants, row_idx, study_name)
    /\ extracted' = Append(extracted, row_idx)

\* generate_list lines 102-109: batch mode, asking first unless prompts are skipped
BatchSelect ==
    /\ pc = "mode"
    /\ mode = "batch"
    /\ \E answer \in IF skip_prompts THEN {yn} ELSE {"y", "n"} :
          /\ yn' = answer
          /\ IF skip_prompts \/ answer = "y"
             THEN /\ pc' = "generate_batch_timestamps"
                  /\ line_index' = id_cell.row + 1
             ELSE /\ pc' = "return"
                  /\ UNCHANGED line_index
    /\ UNCHANGED <<sheet_data, col_count, title, header_row, num_participants, mode,
                 range_start, range_end, id_cell, observation_cell, category_cell,
                 study_name, timestamps, extracted, skip_prompts, line_numbers, cell_specs,
                 categories, selected_categories, valid_lines, spec_index, outcomes>>
    /\ UNCHANGED otherThanSelect

\* generate_batch_timestamps lines 466-468: one turn of the loop
BatchLine ==
    /\ pc = "generate_batch_timestamps"
    /\ line_index < Len(sheet_data)
    /\ ExtractLine(line_index)
    /\ line_index' = line_index + 1
    /\ UNCHANGED <<pc, sheet_data, col_count, title, header_row, num_participants, mode,
                 range_start, range_end, id_cell, observation_cell, category_cell,
                 study_name, skip_prompts, line_numbers, cell_specs, yn, categories,
                 selected_categories, valid_lines, spec_index, outcomes>>
    /\ UNCHANGED otherThanSelect

\* generate_batch_timestamps line 469
BatchReturn ==
    /\ pc = "generate_batch_timestamps"
    /\ line_index >= Len(sheet_data)
    /\ pc' = "return"
    /\ UNCHANGED <<sheet_data, col_count, title, header_row, num_participants, mode,
                 range_start, range_end, id_cell, observation_cell, category_cell,
                 study_name, line_index, timestamps, extracted, skip_prompts, line_numbers,
                 cell_specs, yn, categories, selected_categories, valid_lines, spec_index,
                 outcomes>>
    /\ UNCHANGED otherThanSelect

\* generate_list line 159 and generate_line_timestamps lines 536-552
LineSelect ==
    /\ pc = "mode"
    /\ mode = "line"
    /\ valid_lines' = ValidLines(line_numbers, Len(sheet_data))
    /\ spec_index' = 0
    /\ pc' = IF valid_lines' = <<>> THEN "return" ELSE "generate_line_timestamps"
    /\ UNCHANGED <<sheet_data, col_count, title, header_row, num_participants, mode,
                 range_start, range_end, id_cell, observation_cell, category_cell,
                 study_name, line_index, timestamps, extracted, skip_prompts, line_numbers,
                 cell_specs, yn, categories, selected_categories, outcomes>>
    /\ UNCHANGED otherThanSelect

\* generate_line_timestamps lines 586-589: one turn of the loop
LineExtract ==
    /\ pc = "generate_line_timestamps"
    /\ spec_index < Len(valid_lines)
    /\ ExtractLine(valid_lines[spec_index + 1] - 1)
    /\ spec_index' = spec_index + 1
    /\ UNCHANGED <<pc, sheet_data, col_count, title, header_row, num_participants, mode,
                 range_start, range_end, id_cell, observation_cell, category_cell,
                 study_name, line_index, skip_prompts, line_numbers, cell_specs, yn,
                 categories, selected_categories, valid_lines, outcomes>>
    /\ UNCHANGED otherThanSelect

\* generate_line_timestamps line 594
LineReturn ==
    /\ pc = "generate_line_timestamps"
    /\ spec_index >= Len(valid_lines)
    /\ pc' = "return"
    /\ UNCHANGED <<sheet_data, col_count, title, header_row, num_participants, mode,
                 range_start, range_end, id_cell, observation_cell, category_cell,
                 study_name, line_index, timestamps, extracted, skip_prompts, line_numbers,
                 cell_specs, yn, categories, selected_categories, valid_lines, spec_index,
                 outcomes>>
    /\ UNCHANGED otherThanSelect

\* generate_list lines 110-117
CategoryCollect ==
    /\ pc = "mode"
    /\ mode = "category"
    /\ categories' = collect_categories(sheet_data, id_cell, category_cell)
    /\ pc' = IF categories' = <<>> THEN "return" ELSE "selection"
    /\ UNCHANGED <<sheet_data, col_count, title, header_row, num_participants, mode,
                 range_start, range_end, id_cell, observation_cell, category_cell,
                 study_name, line_index, timestamps, extracted, skip_prompts, line_numbers,
                 cell_specs, yn, selected_categories, valid_lines, spec_index, outcomes>>
    /\ UNCHANGED otherThanSelect

\* generate_list lines 123-157: the user's confirmed choice from the menu,
\* "all" or some of its numbers
CategoryChoose ==
    /\ pc = "selection"
    /\ \E S \in (SUBSET (1..Len(categories))) \ {{}} :
          selected_categories' = Pick(categories, S, 1)
    /\ line_index' = category_cell.row
    /\ pc' = "generate_category_timestamps"
    /\ UNCHANGED <<sheet_data, col_count, title, header_row, num_participants, mode,
                 range_start, range_end, id_cell, observation_cell, category_cell,
                 study_name, timestamps, extracted, skip_prompts, line_numbers, cell_specs,
                 yn, categories, valid_lines, spec_index, outcomes>>
    /\ UNCHANGED otherThanSelect

\* generate_category_timestamps lines 513-517: a row of a selected category
CategoryLine ==
    /\ pc = "generate_category_timestamps"
    /\ line_index < Len(sheet_data)
    /\ Contains_seq(selected_categories, RowCategory(sheet_data, category_cell, line_index))
    /\ ExtractLine(line_index)
    /\ line_index' = line_index + 1
    /\ UNCHANGED <<pc, sheet_data, col_count, title, header_row, num_participants, mode,
                 range_start, range_end, id_cell, observation_cell, category_cell,
                 study_name, skip_prompts, line_numbers, cell_specs, yn, categories,
                 selected_categories, valid_lines, spec_index, outcomes>>
    /\ UNCHANGED otherThanSelect

\* generate_category_timestamps lines 513-515: a row of another category
CategorySkip ==
    /\ pc = "generate_category_timestamps"
    /\ line_index < Len(sheet_data)
    /\ ~Contains_seq(selected_categories, RowCategory(sheet_data, category_cell, line_index))
    /\ line_index' = line_index + 1
    /\ UNCHANGED <<pc, sheet_data, col_count, title, header_row, num_participants, mode,
                 range_start, range_end, id_cell, observation_cell, category_cell,
                 study_name, timestamps, extracted, skip_prompts, line_numbers, cell_specs,
                 yn, categories, selected_categories, valid_lines, spec_index, outcomes>>
    /\ UNCHANGED otherThanSelect

\* generate_category_timestamps line 519
CategoryReturn ==
    /\ pc = "generate_category_timestamps"
    /\ line_index >= Len(sheet_data)
    /\ pc' = "return"
    /\ UNCHANGED <<sheet_data, col_count, title, header_row, num_participants, mode,
                 range_start, range_end, id_cell, observation_cell, category_cell,
                 study_name, line_index, timestamps, extracted, skip_prompts, line_numbers,
                 cell_specs, yn, categories, selected_categories, valid_lines, spec_index,
                 outcomes>>
    /\ UNCHANGED otherThanSelect

\* generate_list lines 205-209 and generate_cell_timestamps lines 383-385
CellSelect ==
    /\ pc = "mode"
    /\ mode = "cell"
    /\ header_row' = IF id_cell.row > 0 THEN sheet_data[id_cell.row] ELSE <<>>
    /\ spec_index' = 0
    /\ pc' = "generate_cell_timestamps"
    /\ UNCHANGED <<sheet_data, col_count, title, num_participants, mode, range_start,
                 range_end, id_cell, observation_cell, category_cell, study_name,
                 line_index, timestamps, extracted, skip_prompts, line_numbers, cell_specs,
                 yn, categories, selected_categories, valid_lines, outcomes>>
    /\ UNCHANGED otherThanSelect

\* generate_cell_timestamps lines 387-447: one turn of the loop
CellSpec ==
    /\ pc = "generate_cell_timestamps"
    /\ spec_index < Len(cell_specs)
    /\ LET spec == cell_specs[spec_index + 1]
           outcome == CellOutcome(sheet_data, id_cell, header_row, spec)
       IN /\ outcomes' = Append(outcomes, outcome)
          /\ timestamps' =
                IF outcome.result = "issue"
                THEN Append(timestamps,
                            CellIssue(sheet_data, id_cell, observation_cell, study_name,
                                      spec[1], spec[2] - 1, outcome.col_idx))
                ELSE timestamps
    /\ spec_index' = spec_index + 1
    /\ UNCHANGED <<pc, sheet_data, col_count, title, header_row, num_participants, mode,
                 range_start, range_end, id_cell, observation_cell, category_cell,
                 study_name, line_index, extracted, skip_prompts, line_numbers, cell_specs,
                 yn, categories, selected_categories, valid_lines>>
    /\ UNCHANGED otherThanSelect

\* generate_cell_timestamps line 449
CellReturn ==
    /\ pc = "generate_cell_timestamps"
    /\ spec_index >= Len(cell_specs)
    /\ pc' = "return"
    /\ UNCHANGED <<sheet_data, col_count, title, header_row, num_participants, mode,
                 range_start, range_end, id_cell, observation_cell, category_cell,
                 study_name, line_index, timestamps, extracted, skip_prompts, line_numbers,
                 cell_specs, yn, categories, selected_categories, valid_lines, spec_index,
                 outcomes>>
    /\ UNCHANGED otherThanSelect

\* generate_list lines 264-267
SelectPass ==
    /\ pc = "mode"
    /\ mode = "select"
    /\ pc' = "return"
    /\ UNCHANGED <<sheet_data, col_count, title, header_row, num_participants, mode,
                 range_start, range_end, id_cell, observation_cell, category_cell,
                 study_name, line_index, timestamps, extracted, skip_prompts, line_numbers,
                 cell_specs, yn, categories, selected_categories, valid_lines, spec_index,
                 outcomes>>
    /\ UNCHANGED otherThanSelect

Header_priority ==
    <<<<"P", "r", "i", "o", "r", "i", "t", "y">>, CATEGORY_HEADER, OBSERVATION_HEADER,
      ID_HEADER, P01, NOTES_COLUMN>>
Header_bare == <<CATEGORY_HEADER, OBSERVATION_HEADER, ID_HEADER>>

\* the Category column is not the one left of the Observation column
Header_observation_first == <<OBSERVATION_HEADER, CATEGORY_HEADER, ID_HEADER, P01, G02>>

SelectHeaders == SheetHeaders \cup {Header_priority, Header_bare, Header_observation_first}

Cell_padded == <<" ", "N", "a", "v", " ">>
Cell_lower == <<"n", "a", "v">>

\* a full data row under header h with category c
WithCategory(h, c) ==
    [n \in 1..Len(h) |-> IF h[n] = CATEGORY_HEADER THEN c ELSE FullRow(h)[n]]

\* the data rows below header h
DataBlocks(h) ==
    { <<>>,
      <<FullRow(h)>>,
      <<EmptyRow(h), FullRow(h)>>,
      <<FullRow(h), WithCategory(h, Cell_padded), WithCategory(h, Cell_lower)>>,
      <<WithCategory(h, Cell_lower), FullRow(h), EmptyRow(h), WithCategory(h, Cell_padded)>> }

SelectSheetsUnder(h) ==
    {top \o <<h>> \o rows : top \in {<<>>, <<TitleRow(h)>>}, rows \in DataBlocks(h)}

SelectSheets == UNION {SelectSheetsUnder(h) : h \in SelectHeaders}

\* line numbers asked for: below the sheet, its first and last row, beyond it
LineNumbers(data) == {0, 1, Len(data), Len(data) + 1}

LineRequests(data) ==
    {<<a>> : a \in LineNumbers(data)}
    \cup {<<a, b>> : a \in LineNumbers(data), b \in LineNumbers(data)}

P09 == <<"P", "0", "9">>

\* (participant id, row number) pairs as parse_cell_specifications returns
\* them: the id starts with P or G and the row number is positive
CellSpecs(data) == {<<p, r>> : p \in {P01, G02, P09}, r \in {Len(data), Len(data) + 1}}

CellRequests(data) ==
    {<<a>> : a \in CellSpecs(data)}
    \cup {<<a, b>> : a \in CellSpecs(data), b \in CellSpecs(data)}

RangeRequests(data) == {<<1, Len(data)>>, <<Len(data), Len(data)>>, <<Len(data), 1>>}

\* what the caller passes to generate_list with each mode
Requests(data) ==
    {[mode |-> "batch", skip_prompts |-> s, line_numbers |-> <<>>, cell_specs |-> <<>>,
      range |-> <<0, 0>>] : s \in BOOLEAN}
    \cup {[mode |-> "line", skip_prompts |-> TRUE, line_numbers |-> l, cell_specs |-> <<>>,
           range |-> <<0, 0>>] : l \in LineRequests(data)}
    \cup {[mode |-> "range", skip_prompts |-> TRUE, line_numbers |-> <<>>,
           cell_specs |-> <<>>, range |-> r] : r \in RangeRequests(data)}
    \cup {[mode |-> "cell", skip_prompts |-> TRUE, line_numbers |-> <<>>, cell_specs |-> c,
           range |-> <<0, 0>>] : c \in CellRequests(data)}
    \cup {[mode |-> m, skip_prompts |-> FALSE, line_numbers |-> <<>>, cell_specs |-> <<>>,
           range |-> <<0, 0>>] : m \in {"category", "select"}}

SelectInit ==
    /\ sheet_data \in SelectSheets
    /\ col_count \in Len(sheet_data[1])..(Len(sheet_data[1]) + ExtraCols)
    /\ title = Title_spreadsheet
    /\ \E request \in Requests(sheet_data) :
          /\ mode = request.mode
          /\ skip_prompts = request.skip_prompts
          /\ line_numbers = request.line_numbers
          /\ cell_specs = request.cell_specs
          /\ range_start = request.range[1]
          /\ range_end = request.range[2]
    /\ header_row = <<>>
    /\ num_participants = 0
    /\ id_cell = None
    /\ observation_cell = None
    /\ category_cell = None
    /\ study_name = <<>>
    /\ line_index = 0
    /\ timestamps = <<>>
    /\ extracted = <<>>
    /\ yn = ""
    /\ categories = <<>>
    /\ selected_categories = <<>>
    /\ valid_lines = <<>>
    /\ spec_index = 0
    /\ outcomes = <<>>

SelectNext ==
    \/ ValidateHeaders
    \/ CheckRows
    \/ CountParticipants
    \/ BatchSelect
    \/ BatchLine
    \/ BatchReturn
    \/ LineSelect
    \/ LineExtract
    \/ LineReturn
    \/ RangeValidate
    \/ RangeLine
    \/ RangeReturn
    \/ CategoryCollect
    \/ CategoryChoose
    \/ CategoryLine
    \/ CategorySkip
    \/ CategoryReturn
    \/ CellSelect
    \/ CellSpec
    \/ CellReturn
    \/ SelectPass

SpecSelectInit ==
    /\ pc = "generate_list"
    /\ warnings = <<>>
    /\ SelectInit
    /\ ParseIdle
    /\ SanitizeIdle
    /\ FilesIdle
    /\ RunIdle
    /\ BrowseIdle
    /\ VERBOSE = TRUE

SpecSelect == SpecSelectInit /\ [][SelectNext]_vars

-----------------------------------------------------------------------------
(* Properties of the selection modes, under SpecSelect *)

\* the header row as the grid holds it
HeaderOf(data, idc) == data[idc.row]

\* the 1-based columns right of the ID column that carry a P or G header,
\* without a gap, before any "Notes" header
ParticipantBlock(row, idc) ==
    {c \in (idc.col + 1)..Len(row) :
        \A b \in (idc.col + 1)..c : b \in ParticipantHeaders(row)}

IssueCells == {<<timestamps[n].cell.row, timestamps[n].cell.col>> : n \in 1..Len(timestamps)}

\* C11: the row extractor emits issues from exactly the contiguous
\* participant columns right of the ID column: every issue comes from a column
\* whose header starts with P or G, none from a column at or beyond "Notes",
\* and every non-empty cell of those columns in an extracted row is emitted.
C11_IssuesFromParticipantColumnsOnly ==
    (mode # "cell" /\ timestamps # <<>>) =>
        /\ \A n \in 1..Len(timestamps) :
              timestamps[n].cell.col \in ParticipantBlock(HeaderOf(sheet_data, id_cell), id_cell)
        /\ pc = "return" =>
              IssueCells =
                {<<extracted[n] + 1, c>> :
                    n \in 1..Len(extracted),
                    c \in ParticipantBlock(HeaderOf(sheet_data, id_cell), id_cell)}
                \cap {rc \in (1..Len(sheet_data)) \X (1..Len(sheet_data[1])) :
                        sheet_data[rc[1]][rc[2]] # <<>>}

\* C13: batch mode calls the row extractor exactly once, in increasing
\* order, on each 0-based row h+1, h+2, ..., last row, where h is the 0-based
\* header row, and on no other row.
C13_BatchExtractsEveryRowAfterHeader ==
    (mode = "batch" /\ pc = "return" /\ num_participants > 0 /\ (skip_prompts \/ yn = "y")) =>
        extracted = [n \in 1..(Len(sheet_data) - id_cell.row) |-> id_cell.row - 1 + n]

\* the first column, from the ID column rightwards and before "Notes", whose
\* trimmed header equals the id case-insensitively; 0 when there is none
ExpectedColumn(row, idc, participant_id) ==
    LET matches == {c \in idc.col..Len(row) :
                        /\ c \in BeforeNotes(row)
                        /\ lower(strip(row[c])) = lower(participant_id)}
    IN IF matches = {} THEN 0 ELSE Least(matches)

InSheet(n) == n >= 1 /\ n <= Len(sheet_data)

\* C14: in line mode every line number outside [1, row count] is dropped
\* and every valid one of the same request is extracted (nothing is returned
\* only if none is valid); in cell mode a specification with an unknown
\* participant or a row out of range is skipped and every other one of the
\* same request yields its issue.
C14_SelectionErrorsAreScoped ==
    /\ (mode = "line" /\ pc = "return" /\ num_participants > 0) =>
          /\ extracted = [n \in 1..Len(SelectSeq(line_numbers, InSheet)) |->
                            SelectSeq(line_numbers, InSheet)[n] - 1]
          /\ SelectSeq(line_numbers, InSheet) = <<>> => timestamps = <<>>
    /\ (mode = "cell" /\ pc = "return" /\ num_participants > 0) =>
          /\ Len(outcomes) = Len(cell_specs)
          /\ \A n \in 1..Len(cell_specs) :
                LET column == ExpectedColumn(HeaderOf(sheet_data, id_cell), id_cell,
                                             cell_specs[n][1])
                IN IF column = 0 \/ ~InSheet(cell_specs[n][2])
                   THEN outcomes[n].result # "issue"
                   ELSE strip(sheet_data[cell_specs[n][2]][column]) # <<>> =>
                            outcomes[n].result = "issue"
          /\ Len(timestamps) = Cardinality({n \in 1..Len(outcomes) : outcomes[n].result = "issue"})

\* the 0-based data rows below the Category header
RowsBelowCategory == category_cell.row..(Len(sheet_data) - 1)

Trimmed(row_idx) == strip(sheet_data[row_idx + 1][category_cell.col])

FirstRowOf(category) == Least({r \in RowsBelowCategory : Trimmed(r) = category})

\* C15: the category menu is the list, without duplicates and in order of
\* first appearance, of the non-empty trimmed category values from the first
\* data row on; category mode extracts exactly the data rows whose trimmed
\* category equals a selected one (case-sensitive), in row order.
C15_CategorySelection ==
    (mode = "category" /\ num_participants > 0
        /\ pc \in {"selection", "generate_category_timestamps", "return"}) =>
        /\ {categories[n] : n \in 1..Len(categories)}
              = {Trimmed(r) : r \in RowsBelowCategory} \ {<<>>}
        /\ \A a, b \in 1..Len(categories) :
              a < b => FirstRowOf(categories[a]) < FirstRowOf(categories[b])
        /\ (pc = "return" /\ categories # <<>>) =>
              /\ {extracted[n] : n \in 1..Len(extracted)}
                    = {r \in RowsBelowCategory :
                          \E n \in 1..Len(selected_categories) :
                              selected_categories[n] = Trimmed(r)}
              /\ \A a, b \in 1..Len(extracted) : a < b => extracted[a] < extracted[b]

\* category mode has returned after choosing one of two categories; a row
\* with a padded category was extracted and a row of the other category was not
C15_Witness ==
    /\ mode = "category"
    /\ pc = "return"
    /\ Len(categories) = 2
    /\ Len(selected_categories) = 1
    /\ \E n \in 1..Len(extracted) :
          sheet_data[extracted[n] + 1][category_cell.col] # Trimmed(extracted[n])
    /\ \E r \in RowsBelowCategory :
          Trimmed(r) # <<>> /\ \A n \in 1..Len(extracted) : extracted[n] # r

\* C16: find_participant_column returns the first column, from the ID column
\* rightwards, whose trimmed header equals the id case-insensitively, and
\* never a column at or after "Notes".
C16_ParticipantColumnStopsAtNotes ==
    mode = "cell" =>
        \A n \in 1..Len(outcomes) :
            outcomes[n].col_idx =
                ExpectedColumn(HeaderOf(sheet_data, id_cell), id_cell, cell_specs[n][1]) - 1

HasHeader(text_of_header) ==
    \E r \in 1..Len(sheet_data) : \E c \in 1..Len(sheet_data[r]) :
        sheet_data[r][c] = text_of_header

\* a required header is absent, there is at most one row, or no header
\* before "Notes" starts with P or G
StructuralProblem ==
    \/ ~HasHeader(ID_HEADER) \/ ~HasHeader(OBSERVATION_HEADER) \/ ~HasHeader(CATEGORY_HEADER)
    \/ Len(sheet_data) <= 1
    \/ ParticipantHeaders(sheet_data[sheet_find(sheet_data, ID_HEADER).row]) = {}

\* C17: with a structural problem generate_list returns an empty list in
\* every mode, and the row extractor is never called.
C17_StructuralProblemsAbort ==
    StructuralProblem =>
        /\ pc \in {"generate_list", "get_all_values", "get_num_participants", "return"}
        /\ timestamps = <<>>
        /\ extracted = <<>>

-----------------------------------------------------------------------------
(* clipgen.process_clips on the issues generate_list returns in batch mode, *)
(* with clean_issue, get_unique_filename and run_ffmpeg                      *)

\* utils.parse_timestamps lines 171-206 as a function: the pairs of the tokens
RECURSIVE PairsOf(_)
PairsOf(tokens) ==
    IF tokens = <<>> THEN <<>>
    ELSE LET tok == CleanToken(Head(tokens))
         IN (IF Classify(tok) \in {"pair", "single"} THEN <<TimePair(tok)>> ELSE <<>>)
                \o PairsOf(Tail(tokens))

\* the cleaned tokens that are recorded as skipped
RECURSIVE SkippedOf(_)
SkippedOf(tokens) ==
    IF tokens = <<>> THEN <<>>
    ELSE LET tok == CleanToken(Head(tokens))
         IN (IF Classify(tok) = "skipped" THEN <<tok>> ELSE <<>>) \o SkippedOf(Tail(tokens))

\* the warnings add_duration prints for the tokens it cannot parse
RECURSIVE DroppedOf(_)
DroppedOf(tokens) ==
    IF tokens = <<>> THEN <<>>
    ELSE LET tok == CleanToken(Head(tokens))
         IN (IF Classify(tok) = "dropped" THEN <<AddDurationWarning(tok)>> ELSE <<>>)
                \o DroppedOf(Tail(tokens))

\* utils.parse_timestamps: the list it returns
parse_timestamps(value) == PairsOf(Tokenize(value))

\* utils.parse_timestamps: the warnings it prints
ParseWarnings(value) ==
    DroppedOf(Tokenize(value))
        \o (IF SkippedOf(Tokenize(value)) # <<>>
            THEN <<SkippedWarning(SkippedOf(Tokenize(value)))>> ELSE <<>>)

Uncategorized == <<"u", "n", "c", "a", "t", "e", "g", "o", "r", "i", "z", "e", "d">>

\* clean_issue lines 642-645: the warning for a cell without timestamps
NoTimestampsWarning(issue) ==
    [message |-> "No valid timestamps found in cell",
     count   |-> 0,
     shown   |-> <<issue.cell.value>>,
     more    |-> 0]

\* clean_issue: times added, description and category made fit for a file name
clean_issue(issue) ==
    LET bracket_pos == rfind(issue.desc, "]")
        desc == IF bracket_pos >= 0
                THEN strip(slice(issue.desc, bracket_pos + 1, Len(issue.desc)))
                ELSE strip(issue.desc)
    IN [cell |-> issue.cell,
        desc |-> sanitize_filename(desc),
        study |-> issue.study,
        participant |-> issue.participant,
        category |-> IF issue.category # <<>> THEN sanitize_filename(issue.category)
                     ELSE Uncategorized,
        times |-> parse_timestamps(issue.cell.value)]

\* every issue is taken to have timestamps
HasTimes_always(c) == TRUE

\* process_clips line 973: the cleaned issue has timestamps
HasTimes(c) == c.times # <<>>

\* process_clips line 977
BaseVideo(c) == c.study \o <<"_">> \o c.participant \o FILEFORMAT

\* the output name without the category in brackets
OutputName_no_category(c) ==
    c.study \o <<" ">> \o c.participant \o <<" ">> \o c.desc \o FILEFORMAT

\* process_clips line 990
OutputName(c) ==
    <<"[">> \o c.category \o <<"]", " ">> \o c.study \o <<" ">> \o c.participant
        \o <<" ">> \o c.desc \o FILEFORMAT

\* files.get_unique_filename as a function of the files that exist
RECURSIVE UniqueFrom(_, _, _)
UniqueFrom(name, n, files) ==
    IF name \in files THEN UniqueFrom(NextCandidate(name, n), n + 1, files)
    ELSE truncate_filename(name, n)

get_unique_filename(name, files) == UniqueFrom(name, 1, files)

MAX_CLIP_DURATION_SECONDS == 600
DEBUGGING == FALSE

\* get_file_duration returned None
NoLength == 0 - 1

\* what ffprobe may report for a source video, in seconds
FileLengths == {NoLength, 30, 3600}

otherThanRun ==
    <<parseVars, sanitizeVars, base, filename, step, checked, returned, all_created,
      sheetVars, skip_prompts, line_numbers, cell_specs, categories, selected_categories,
      valid_lines, spec_index, outcomes,
      browseVars>>

\* main lines 1130-1141 and process_clips lines 959-967: the list generate_list
\* returned is handed to process_clips
ProcessStart ==
    /\ pc = "return"
    /\ clips_list' = timestamps
    /\ clip_index' = 0
    /\ pc' = IF timestamps = <<>> THEN "done" ELSE "for clip"
    /\ UNCHANGED <<warnings, fs, yn, clip, pair_index, base_video, vid_name, duration,
                 file_length, videos_generated, videos_skipped, missing_videos,
                 diagnostics, requests, cuts>>
    /\ UNCHANGED <<VERBOSE, summary>>
    /\ UNCHANGED otherThanRun

\* process_clips lines 969-975: an issue without timestamps is skipped
SkipClip ==
    /\ pc = "for clip"
    /\ clip_index < Len(clips_list)
    /\ ~HasTimes(clean_issue(clips_list[clip_index + 1]))
    /\ clip' = clean_issue(clips_list[clip_index + 1])
    /\ warnings' = warnings \o ParseWarnings(clips_list[clip_index + 1].cell.value)
                        \o <<NoTimestampsWarning(clips_list[clip_index + 1])>>
    /\ videos_skipped' = videos_skipped + 1
    /\ clip_index' = clip_index + 1
    /\ UNCHANGED <<pc, fs, yn, clips_list, pair_index, base_video, vid_name, duration,
                 file_length, videos_generated, missing_videos, diagnostics, requests,
                 cuts>>
    /\ UNCHANGED <<VERBOSE, summary>>
    /\ UNCHANGED otherThanRun

\* process_clips lines 969-984: an issue with timestamps, and the one warning
\* for a source video that is missing for the first time
StartClip ==
    /\ pc = "for clip"
    /\ clip_index < Len(clips_list)
    /\ HasTimes(clean_issue(clips_list[clip_index + 1]))
    /\ clip' = clean_issue(clips_list[clip_index + 1])
    /\ warnings' = warnings \o ParseWarnings(clips_list[clip_index + 1].cell.value)
    /\ base_video' = BaseVideo(clip')
    /\ IF base_video' \notin fs /\ base_video' \notin missing_videos
       THEN /\ missing_videos' = missing_videos \cup {base_video'}
            /\ diagnostics' = Append(diagnostics,
                    [message |-> "Source video file not found", file |-> base_video'])
       ELSE UNCHANGED <<missing_videos, diagnostics>>
    /\ pair_index' = 0
    /\ pc' = "for pair"
    /\ UNCHANGED <<fs, yn, clips_list, clip_index, vid_name, duration, file_length,
                 videos_generated, videos_skipped, requests, cuts>>
    /\ UNCHANGED <<VERBOSE, summary>>
    /\ UNCHANGED otherThanRun

\* every call is made for the first pair of the issue
PairAt_first(n) == clip.times[1]

\* process_clips line 986: the pair the loop is at, n pairs of the issue done
PairAt(n) == clip.times[n + 1]

\* process_clips lines 986-1005: the output name, and the call of run_ffmpeg
PairRequest ==
    /\ pc = "for pair"
    /\ pair_index < Len(clip.times)
    /\ vid_name' = get_unique_filename(OutputName(clip), fs)
    /\ requests' = Append(requests,
            [issue |-> clip_index + 1, pair |-> pair_index + 1, input_file |-> base_video,
             output_file |-> vid_name', start_pos |-> PairAt(pair_index)[1],
             end_pos |-> PairAt(pair_index)[2]])
    /\ pc' = "run_ffmpeg"
    /\ UNCHANGED <<warnings, fs, yn, clips_list, clip_index, clip, pair_index, base_video,
                 duration, file_length, videos_generated, videos_skipped, missing_videos,
                 diagnostics, cuts>>
    /\ UNCHANGED <<VERBOSE, summary>>
    /\ UNCHANGED otherThanRun

\* run_ffmpeg lines 673-677: the input file does not exist
FfmpegNoInput ==
    /\ pc = "run_ffmpeg"
    /\ base_video \notin fs
    /\ diagnostics' = Append(diagnostics,
            [message |-> "Input video file not found", file |-> base_video])
    /\ videos_skipped' = videos_skipped + 1
    /\ pair_index' = pair_index + 1
    /\ pc' = "for pair"
    /\ UNCHANGED <<warnings, fs, yn, clips_list, clip_index, clip, base_video, vid_name,
                 duration, file_length, videos_generated, missing_videos, requests, cuts>>
    /\ UNCHANGED <<VERBOSE, summary>>
    /\ UNCHANGED otherThanRun

\* the tests of run_ffmpeg with the negative duration tested before the probe
DurationVerdict_negative_first(d, length) ==
    IF ~d.ok THEN "Timestamp formatting error in get_duration()"
    ELSE IF d.value < 0 THEN "Negative duration calculated for video clip"
    ELSE IF length = NoLength THEN "get_file_duration returned None"
    ELSE IF d.value > length THEN "Timestamp duration exceeds video file length"
    ELSE IF d.value > MAX_CLIP_DURATION_SECONDS THEN "input"
    ELSE "ffmpeg"

\* run_ffmpeg lines 679-703: the tests on the duration d of the clip and the
\* probed length of the source file, in the order of the code; the result is
\* the error that is printed, or the place the call goes on to
DurationVerdict(d, length) ==
    IF ~d.ok THEN "Timestamp formatting error in get_duration()"
    ELSE IF length = NoLength THEN "get_file_duration returned None"
    ELSE IF d.value < 0 THEN "Negative duration calculated for video clip"
    ELSE IF d.value > length THEN "Timestamp duration exceeds video file length"
    ELSE IF d.value > MAX_CLIP_DURATION_SECONDS THEN "input"
    ELSE "ffmpeg"

\* run_ffmpeg lines 679-703: the durations of the clip and of the source
\* file, and the tests on them; the source file is probed only when the
\* duration of the clip could be computed
FfmpegDurations ==
    /\ pc = "run_ffmpeg"
    /\ base_video \in fs
    /\ LET d == get_duration(clip.times[pair_index + 1][1], clip.times[pair_index + 1][2])
       IN \E length \in IF d.ok THEN FileLengths ELSE {file_length} :
             /\ file_length' = length
             /\ duration' = IF d.ok THEN d.value ELSE duration
             /\ IF DurationVerdict(d, length) \in {"input", "ffmpeg"}
                THEN /\ pc' = DurationVerdict(d, length)
                     /\ UNCHANGED <<videos_skipped, pair_index, diagnostics>>
                ELSE /\ diagnostics' = Append(diagnostics,
                            [message |-> DurationVerdict(d, length), file |-> base_video])
                     /\ videos_skipped' = videos_skipped + 1
                     /\ pair_index' = pair_index + 1
                     /\ pc' = "for pair"
    /\ UNCHANGED <<warnings, fs, yn, clips_list, clip_index, clip, base_video, vid_name,
                 videos_generated, missing_videos, requests, cuts>>
    /\ UNCHANGED <<VERBOSE, summary>>
    /\ UNCHANGED otherThanRun

\* run_ffmpeg lines 700-703: input() returns the user's answer to
\* "Generate anyway? (y/n)"
FfmpegAnswer ==
    /\ pc = "input"
    /\ \E answer \in {"y", "n"} :
          /\ yn' = answer
          /\ IF answer # "y"
             THEN /\ videos_skipped' = videos_skipped + 1
                  /\ pair_index' = pair_index + 1
                  /\ pc' = "for pair"
             ELSE /\ UNCHANGED <<videos_skipped, pair_index>>
                  /\ pc' = "ffmpeg"
    /\ UNCHANGED <<warnings, fs, clips_list, clip_index, clip, base_video, vid_name,
                 duration, file_length, videos_generated, missing_videos, diagnostics,
                 requests, cuts>>
    /\ UNCHANGED <<VERBOSE, summary>>
    /\ UNCHANGED otherThanRun

\* run_ffmpeg lines 712-746: the ways the call of ffmpeg can end
CutOutcomes ==
    {"ok", "exit code", "output file was not created", "FileNotFoundError", "OSError"}

\* run_ffmpeg with the test for the output file left out
Succeeded_output_unchecked(outcome) == outcome \in {"ok", "output file was not created"}

\* run_ffmpeg lines 722-735: True is returned after exit code 0 with the
\* output file in place
Succeeded(outcome) == outcome = "ok"

\* the call of ffmpeg for the pair at hand, made by the latest call of run_ffmpeg
CutCall(outcome) ==
    [input_file |-> base_video, output_file |-> vid_name,
     start_pos |-> clip.times[pair_index + 1][1],
     t |-> duration, file_length |-> file_length, completed |-> Succeeded(outcome),
     outcome |-> outcome, request |-> Len(requests)]

\* run_ffmpeg lines 705-746: ffmpeg is run (stream copy or re-encode) and
\* writes the clip, or fails
FfmpegCut ==
    /\ pc = "ffmpeg"
    /\ IF DEBUGGING
       THEN /\ UNCHANGED <<cuts, fs, videos_generated>>
            /\ videos_skipped' = videos_skipped + 1
       ELSE \E outcome \in CutOutcomes :
               /\ cuts' = Append(cuts, CutCall(outcome))
               /\ IF Succeeded(outcome)
                  THEN /\ fs' = fs \cup {vid_name}
                       /\ videos_generated' = videos_generated + 1
                       /\ UNCHANGED videos_skipped
                  ELSE /\ videos_skipped' = videos_skipped + 1
                       /\ UNCHANGED <<fs, videos_generated>>
    /\ pair_index' = pair_index + 1
    /\ pc' = "for pair"
    /\ UNCHANGED <<warnings, yn, clips_list, clip_index, clip, base_video, vid_name,
                 duration, file_length, missing_videos, diagnostics, requests>>
    /\ UNCHANGED <<VERBOSE, summary>>
    /\ UNCHANGED otherThanRun

\* video.run_ffmpeg lines 63-123, called in the place of clipgen.run_ffmpeg:
\* the same calls of ffmpeg and the same failures, and after a cut that
\* succeeded line 105 reads config.MAX_FILESIZE_MB, which config.py does not
\* define: the AttributeError is caught nowhere in run_ffmpeg or process_clips
VideoFfmpegCut ==
    /\ pc = "ffmpeg"
    /\ IF DEBUGGING
       THEN /\ UNCHANGED <<cuts, fs>>
            /\ videos_skipped' = videos_skipped + 1
            /\ pair_index' = pair_index + 1
            /\ pc' = "for pair"
       ELSE \E outcome \in CutOutcomes :
               /\ cuts' = Append(cuts, CutCall(outcome))
               /\ IF Succeeded(outcome)
                  THEN /\ fs' = fs \cup {vid_name}
                       /\ pc' = "AttributeError"
                       /\ UNCHANGED <<videos_skipped, pair_index>>
                  ELSE /\ videos_skipped' = videos_skipped + 1
                       /\ pair_index' = pair_index + 1
                       /\ pc' = "for pair"
                       /\ UNCHANGED fs
    /\ UNCHANGED <<warnings, yn, clips_list, clip_index, clip, base_video, vid_name,
                 duration, file_length, videos_generated, missing_videos, diagnostics,
                 requests>>
    /\ UNCHANGED <<VERBOSE, summary>>
    /\ UNCHANGED otherThanRun

\* process_clips line 986: the pairs of the issue are done
ClipDone ==
    /\ pc = "for pair"
    /\ pair_index >= Len(clip.times)
    /\ clip_index' = clip_index + 1
    /\ pc' = "for clip"
    /\ UNCHANGED <<warnings, fs, yn, clips_list, clip, pair_index, base_video, vid_name,
                 duration, file_length, videos_generated, videos_skipped, missing_videos,
                 diagnostics, requests, cuts>>
    /\ UNCHANGED <<VERBOSE, summary>>
    /\ UNCHANGED otherThanRun

\* the summary printed whenever the list was not empty, whatever VERBOSE is
Summary_unconditional(verbose, generated, skipped, missing) ==
    <<[generated |-> generated, skipped |-> skipped],
      [missing |-> Cardinality(missing)]>>

\* process_clips lines 1011-1015 with verbose_print: the lines of the summary
Summary(verbose, generated, skipped, missing) ==
    (IF skipped > 0 /\ verbose
     THEN <<[generated |-> generated, skipped |-> skipped]>> ELSE <<>>)
        \o (IF missing # {} /\ verbose THEN <<[missing |-> Cardinality(missing)]>> ELSE <<>>)

\* process_clips lines 1011-1017
ProcessReturn ==
    /\ pc = "for clip"
    /\ clip_index >= Len(clips_list)
    /\ summary' = Summary(VERBOSE, videos_generated, videos_skipped, missing_videos)
    /\ pc' = "done"
    /\ UNCHANGED <<warnings, fs, yn, clips_list, clip_index, clip, pair_index, base_video,
                 vid_name, duration, file_length, videos_generated, videos_skipped,
                 missing_videos, diagnostics, requests, cuts, VERBOSE>>
    /\ UNCHANGED otherThanRun

\* the sheets and directories the runs start from: the header row is row 0,
\* four data rows, the timestamps in the third and fourth row of the grid
Cell_intro == <<"I", "n", "t", "r", "o">>
Cell_desc == <<"d", "e", "s", "c">>
Cell_clip == <<"1", ":", "0", "0", "-", "2", ":", "0", "0">>
Cell_two_clips == <<"1", ":", "0", "0", "-", "2", ":", "0", "0", " ", "3", ":", "0", "0", "-", "4", ":", "0", "0">>
Cell_long_clip == <<"1", ":", "0", "0", "-", "2", "0", ":", "0", "0">>
Cell_banana == <<"b", "a", "n", "a", "n", "a">>
Cell_backwards == <<"2", ":", "0", "0", "-", "1", ":", "0", "0">>
Cell_no_end == <<"1", ":", "0", "0", "-", "2">>

Header_one_participant == <<CATEGORY_HEADER, OBSERVATION_HEADER, ID_HEADER, P01>>

RunCells ==
    {<<>>, Cell_clip, Cell_two_clips, Cell_long_clip, Cell_banana, Cell_backwards, Cell_no_end}

\* a data row without timestamps under a header of width w
NoteRow(w) == <<Cell_category, Cell_observation, Cell_id>> \o [n \in 1..(w - 3) |-> <<>>]

RunSheets ==
    { <<Header_one_participant, NoteRow(4), <<Cell_category, Cell_observation, Cell_id, a>>,
        <<Cell_intro, Cell_desc, Cell_id, b>>, NoteRow(4)>> :
        a \in RunCells, b \in {<<>>, Cell_clip, Cell_banana} }
    \cup
    { <<Header_full, NoteRow(6), <<Cell_category, <<>>, Cell_id, a, b, Cell_note>>,
        <<Cell_intro, Cell_desc, Cell_id, Cell_clip, <<>>, <<>>>>, NoteRow(6)>> :
        a \in {<<>>, Cell_clip}, b \in {Cell_clip, Cell_banana} }

\* the study name of the sheets above: their cell A1 is the Category header
RunStudy == normalize_study_name(CATEGORY_HEADER)

SourceVideos == {RunStudy \o <<"_">> \o p \o FILEFORMAT : p \in {P01, G02}}

\* the directories the runs start in: no source video, the one of P01, both
Directories == {{}, {RunStudy \o <<"_">> \o P01 \o FILEFORMAT}, SourceVideos}

RunInit ==
    /\ sheet_data \in RunSheets
    /\ col_count \in Len(sheet_data[1])..(Len(sheet_data[1]) + ExtraCols)
    /\ title = Title_spreadsheet
    /\ mode = "batch"
    /\ skip_prompts \in BOOLEAN
    /\ VERBOSE \in BOOLEAN
    /\ fs \in Directories
    /\ line_numbers = <<>>
    /\ cell_specs = <<>>
    /\ range_start = 0
    /\ range_end = 0
    /\ header_row = <<>>
    /\ num_participants = 0
    /\ id_cell = None
    /\ observation_cell = None
    /\ category_cell = None
    /\ study_name = <<>>
    /\ line_index = 0
    /\ timestamps = <<>>
    /\ extracted = <<>>
    /\ yn = ""
    /\ categories = <<>>
    /\ selected_categories = <<>>
    /\ valid_lines = <<>>
    /\ spec_index = 0
    /\ outcomes = <<>>
    /\ base = <<>>
    /\ filename = <<>>
    /\ step = 0
    /\ checked = <<>>
    /\ returned = <<>>
    /\ all_created = TRUE

RunNext ==
    \/ ValidateHeaders
    \/ CheckRows
    \/ CountParticipants
    \/ BatchSelect
    \/ BatchLine
    \/ BatchReturn
    \/ ProcessStart
    \/ SkipClip
    \/ StartClip
    \/ PairRequest
    \/ FfmpegNoInput
    \/ FfmpegDurations
    \/ FfmpegAnswer
    \/ FfmpegCut
    \/ ClipDone
    \/ ProcessReturn

SpecRunInit ==
    /\ pc = "generate_list"
    /\ warnings = <<>>
    /\ RunInit
    /\ ParseIdle
    /\ SanitizeIdle
    /\ RunIdle
    /\ BrowseIdle

SpecRun == SpecRunInit /\ [][RunNext]_vars

\* the same runs with video.run_ffmpeg as the run_ffmpeg that process_clips calls
VideoNext ==
    \/ ValidateHeaders
    \/ CheckRows
    \/ CountParticipants
    \/ BatchSelect
    \/ BatchLine
    \/ BatchReturn
    \/ ProcessStart
    \/ SkipClip
    \/ StartClip
    \/ PairRequest
    \/ FfmpegNoInput
    \/ FfmpegDurations
    \/ FfmpegAnswer
    \/ VideoFfmpegCut
    \/ ClipDone
    \/ ProcessReturn

SpecVideo == SpecRunInit /\ [][VideoNext]_vars

-----------------------------------------------------------------------------
(* Properties of the runs *)

\* the grid of the end-to-end scenario, in a worksheet as wide as the grid
ScenarioSheet ==
    <<Header_one_participant, NoteRow(4), NoteRow(4),
      <<Cell_intro, Cell_desc, Cell_id, Cell_clip>>, NoteRow(4)>>

ScenarioRun ==
    /\ sheet_data = ScenarioSheet
    /\ col_count = Len(Header_one_participant)
    /\ yn # "n"
    /\ pc = "done"

WithoutTimes(n) ==
    {m \in 1..n : parse_timestamps(clips_list[m].cell.value) = <<>>}

\* the calls of run_ffmpeg that have returned
ReturnedRequests ==
    IF pc \in {"run_ffmpeg", "input", "ffmpeg"} THEN Len(requests) - 1 ELSE Len(requests)

\* C18: an issue whose cleaned times are empty gets no call of run_ffmpeg and
\* adds exactly one to the skipped count, and the run goes on to the issues
\* after it: at every moment the two counters add up to the calls that have
\* returned plus the issues without times passed so far, and the run ends
\* with every issue visited.
C18_EmptyTimesSkippedOnce ==
    /\ \A n \in 1..Len(requests) : requests[n].issue \notin WithoutTimes(Len(clips_list))
    /\ pc \in {"for clip", "done"} =>
           videos_generated + videos_skipped
               = ReturnedRequests + Cardinality(WithoutTimes(clip_index))
    /\ pc = "done" => clip_index = Len(clips_list)

C18_Witness ==
    /\ pc = "done"
    /\ \E m \in WithoutTimes(Len(clips_list)) :
          \E n \in 1..Len(requests) : requests[n].issue > m

\* the source videos that the issues with timestamps need and that are not there
MissingSources ==
    {BaseVideo(clean_issue(clips_list[m])) :
        m \in (1..Len(clips_list)) \ WithoutTimes(Len(clips_list))} \ fs

\* the diagnostics printed about the file f
DiagnosticsAbout(f) == {n \in 1..Len(diagnostics) : diagnostics[n].file = f}

\* C19: a run that ends has printed exactly one missing-source diagnostic for
\* each distinct source video that is missing, has run ffmpeg on none of
\* them, has counted each of their pairs as skipped, and reports as many
\* missing videos as there are distinct missing files.
C19_OneDiagnosticPerMissingFile ==
    pc = "done" =>
        /\ \A f \in MissingSources : Cardinality(DiagnosticsAbout(f)) = 1
        /\ \A n \in 1..Len(cuts) : cuts[n].input_file \notin MissingSources
        /\ videos_skipped >=
               Cardinality({n \in 1..Len(requests) : requests[n].input_file \in MissingSources})
        /\ Cardinality(missing_videos) = Cardinality(MissingSources)

\* C20: with the prompts skipped, run_ffmpeg never waits for an answer to
\* "Generate anyway? (y/n)".
C20_UnattendedNeverWaitsForInput == skip_prompts => pc # "input"

\* the pairs of the issues of the list
RECURSIVE PairsUpTo(_)
PairsUpTo(n) ==
    IF n = 0 THEN 0
    ELSE PairsUpTo(n - 1) + Len(parse_timestamps(clips_list[n].cell.value))

\* a step in which ffmpeg was called and failed
FailedCut == Len(cuts') = Len(cuts) + 1 /\ cuts'[Len(cuts')].outcome # "ok"

\* C21: a cut that fails (exit code other than 0, no output file, ffmpeg not
\* found or not runnable) is a failure of that clip alone: the call returns
\* to the loop over the pairs with one more clip counted as skipped and none
\* as generated, and a run that reaches its end has called run_ffmpeg for
\* every pair of every issue.
C21_FailedCutIsPerClip ==
    /\ [][FailedCut =>
             /\ pc' = "for pair"
             /\ pair_index' = pair_index + 1
             /\ clip_index' = clip_index
             /\ videos_skipped' = videos_skipped + 1
             /\ videos_generated' = videos_generated]_vars
    /\ [](pc = "done" => Len(requests) = PairsUpTo(Len(clips_list)))

C21_Witness ==
    /\ pc = "done"
    /\ \E n \in 1..Len(cuts) :
          /\ cuts[n].outcome = "output file was not created"
          /\ cuts[n].request < Len(requests)
          /\ requests[Len(requests)].issue > requests[cuts[n].request].issue

\* a step in which ffmpeg was called, ended with exit code 0 and left the
\* output file in place
SuccessfulCut == Len(cuts') = Len(cuts) + 1 /\ cuts'[Len(cuts')].outcome = "ok"

\* C25: when the source file exists, the duration tests pass, debugging is
\* off, ffmpeg exits with code 0 and the output file exists afterwards,
\* run_ffmpeg returns True: the clip is counted as generated and the loop
\* over the pairs goes on.
C25_SuccessfulCutIsCounted ==
    [][SuccessfulCut =>
          /\ pc' = "for pair"
          /\ pair_index' = pair_index + 1
          /\ videos_generated' = videos_generated + 1
          /\ videos_skipped' = videos_skipped]_vars

\* the pair that the call of run_ffmpeg at hand is about
PairAtHand == clip.times[pair_index + 1]

\* what a step of run_ffmpeg's tests ended with: the error printed, or the
\* place the call went on to
Ending(diagnostics_after, pc_after) ==
    IF pc_after \in {"input", "ffmpeg"} THEN pc_after
    ELSE diagnostics_after[Len(diagnostics_after)].message

\* C26: the tests of run_ffmpeg are made in the order unparseable, probe
\* failure, negative, longer than the source file, longer than 600 seconds;
\* a pair that fails one of the first four gets no call of ffmpeg and is
\* counted as skipped, and every call of ffmpeg is for a duration that could
\* be computed, is not negative and is within the probed length of the file.
C26_DurationChecksBeforeCut ==
    /\ [][(pc = "run_ffmpeg" /\ base_video \in fs) =>
            LET d == get_duration(PairAtHand[1], PairAtHand[2])
                ending == Ending(diagnostics', pc')
                rejected == pc' \notin {"input", "ffmpeg"}
            IN /\ ~d.ok =>
                     /\ ending = "Timestamp formatting error in get_duration()"
                     /\ file_length' = file_length
               /\ (d.ok /\ file_length' = NoLength) =>
                     ending = "get_file_duration returned None"
               /\ (d.ok /\ file_length' # NoLength /\ d.value < 0) =>
                     ending = "Negative duration calculated for video clip"
               /\ (d.ok /\ file_length' # NoLength /\ d.value >= 0
                        /\ d.value > file_length') =>
                     ending = "Timestamp duration exceeds video file length"
               /\ (d.ok /\ file_length' # NoLength /\ d.value >= 0
                        /\ d.value <= file_length') =>
                     ending = IF d.value > 600 THEN "input" ELSE "ffmpeg"
               /\ rejected =>
                     /\ pc' = "for pair"
                     /\ Len(diagnostics') = Len(diagnostics) + 1
                     /\ cuts' = cuts
                     /\ videos_skipped' = videos_skipped + 1
                     /\ videos_generated' = videos_generated]_vars
    /\ [](\A n \in 1..Len(cuts) :
            LET d == get_duration(requests[cuts[n].request].start_pos,
                                  requests[cuts[n].request].end_pos)
            IN /\ d.ok
               /\ d.value = cuts[n].t
               /\ cuts[n].t >= 0
               /\ cuts[n].file_length # NoLength
               /\ cuts[n].t <= cuts[n].file_length)

C26_Witness ==
    /\ pc = "done"
    /\ cuts = <<>>
    /\ \E n \in 1..Len(diagnostics) :
          diagnostics[n].message = "Negative duration calculated for video clip"
    /\ \E n \in 1..Len(diagnostics) :
          diagnostics[n].message = "Timestamp duration exceeds video file length"

\* the summary lines that report the two counters as they stand
CountLines ==
    {n \in 1..Len(summary) :
        summary[n] = [generated |-> videos_generated, skipped |-> videos_skipped]}

\* the summary lines that report the number of distinct missing source videos
MissingLines ==
    {n \in 1..Len(summary) : summary[n] = [missing |-> Cardinality(missing_videos)]}

TimesOf(n) == parse_timestamps(clips_list[n].cell.value)

\* C27: when process_clips has gone through the list, videos_generated +
\* videos_skipped is the number of issues without times plus the number of
\* pairs of the other issues; every pair has had exactly one call of
\* run_ffmpeg, and the calls were made in the order of the issues and, within
\* an issue, in the order of its pairs.
C27_Accounting ==
    pc = "done" =>
        /\ videos_generated + videos_skipped
               = Cardinality(WithoutTimes(Len(clips_list))) + PairsUpTo(Len(clips_list))
        /\ Len(requests) = PairsUpTo(Len(clips_list))
        /\ \A n \in 1..Len(requests) :
              /\ requests[n].issue \in 1..Len(clips_list)
              /\ requests[n].pair \in 1..Len(TimesOf(requests[n].issue))
              /\ requests[n].start_pos = TimesOf(requests[n].issue)[requests[n].pair][1]
              /\ requests[n].end_pos = TimesOf(requests[n].issue)[requests[n].pair][2]
        /\ \A n \in 1..(Len(requests) - 1) :
              \/ requests[n].issue < requests[n + 1].issue
              \/ /\ requests[n].issue = requests[n + 1].issue
                 /\ requests[n + 1].pair = requests[n].pair + 1
        /\ videos_generated = Cardinality({n \in 1..Len(cuts) : cuts[n].completed})

C27_Witness ==
    /\ pc = "done"
    /\ WithoutTimes(Len(clips_list)) # {}
    /\ videos_generated > 0
    /\ \E n \in 1..Len(requests) : requests[n].pair = 2

-----------------------------------------------------------------------------
(* The split of a token at its dash, checked under SpecParse *)

\* the token the loop is about to clean and classify
NextToken == CleanToken(raw_times[i + 1])

\* 1-based position of the first '-' of s that comes right after a digit
FirstDashAfterDigit(s) == Least({k \in 2..Len(s) : s[k] = "-" /\ isdigit(s[k - 1])})

\* 1-based position of the first '-' of s
FirstDash(s) == Least({k \in 1..Len(s) : s[k] = "-"})

\* s cut in two at position k, the character at k left out
CutAt(s, k) == <<SubSeq(s, 1, k - 1), SubSeq(s, k + 1, Len(s))>>

TokenStep == pc = "for" /\ i < Len(raw_times) /\ i' = i + 1

\* C23 as stated: a cleaned token with a '-' right after a digit is split
\* around the first such dash, and (text before, text after) is appended as
\* it is; parse_timestamps("1:23-4:56") returns [("1:23","4:56")].
C23_SplitAtFirstDashAfterDigit ==
    /\ [][(TokenStep /\ DigitBefore(NextToken, "-")) =>
            parsed_timestamps' =
                Append(parsed_timestamps, CutAt(NextToken, FirstDashAfterDigit(NextToken)))]_vars
    /\ []((pc = "return" /\ cell_value = Text_range) =>
            parsed_timestamps = << <<Text_1_23, <<"4", ":", "5", "6">> >> >>)

\* C23 as amended: a cleaned token whose first '-' comes right after a digit
\* is split around that first dash, and (text before, text after) is
\* appended as it is, neither half validated; a token whose first '-' does
\* not come right after a digit appends no pair and is recorded as skipped,
\* also when a later dash of it comes right after a digit;
\* parse_timestamps("1:23-4:56") returns [("1:23","4:56")].
C23_SplitAtFirstDash ==
    /\ [][(TokenStep /\ find(NextToken, "-") >= 0) =>
            IF FirstDash(NextToken) > 1 /\ isdigit(NextToken[FirstDash(NextToken) - 1])
            THEN /\ parsed_timestamps' =
                        Append(parsed_timestamps, CutAt(NextToken, FirstDash(NextToken)))
                 /\ skipped_timestamps' = skipped_timestamps
            ELSE /\ parsed_timestamps' = parsed_timestamps
                 /\ skipped_timestamps' = Append(skipped_timestamps, NextToken)]_vars
    /\ []((pc = "return" /\ cell_value = Text_range) =>
            /\ parsed_timestamps = << <<Text_1_23, <<"4", ":", "5", "6">> >> >>
            /\ skipped_timestamps = <<>>)

\* "a-1-2" has been skipped and "12--3" split into ("12", "-3")
C23_Witness ==
    /\ pc = "return"
    /\ cell_value = Text_dashes
    /\ <<"a", "-", "1", "-", "2">> \in {skipped_timestamps[k] : k \in 1..Len(skipped_timestamps)}
    /\ <<<<"1", "2">>, <<"-", "3">>>> \in {parsed_timestamps[k] : k \in 1..Len(parsed_timestamps)}

-----------------------------------------------------------------------------
(* get_line_timestamps called on one row index of a grid *)

MaxCounted == 3
LineMargin == 1

\* a data row under header h whose first participant cell is empty and
\* whose other participant cells hold blanks
SparseRow(h) ==
    [k \in 1..Len(h) |->
        IF FullRow(h)[k] # Cell_time THEN FullRow(h)[k]
        ELSE IF \E j \in 1..(k - 1) : FullRow(h)[j] = Cell_time THEN <<" ">>
        ELSE <<>>]

\* the headers under which generate_list gets as far as reading a row
LineHeaders ==
    {h \in SelectHeaders :
        \A needed \in {ID_HEADER, OBSERVATION_HEADER, CATEGORY_HEADER} :
            \E k \in 1..Len(h) : h[k] = needed}

LineSheetsUnder(h) ==
    {top \o <<h>> \o rows :
        top \in {<<>>, <<TitleRow(h)>>},
        rows \in {<<FullRow(h)>>, <<SparseRow(h), FullRow(h)>>, <<EmptyRow(h), SparseRow(h)>>}}

LineSheets == UNION {LineSheetsUnder(h) : h \in LineHeaders}

LineInit ==
    /\ sheet_data \in LineSheets
    /\ col_count = Len(sheet_data[1])
    /\ title = Title_spreadsheet
    /\ header_row = <<>>
    /\ mode = "none"
    /\ range_start = 0
    /\ range_end = 0
    /\ id_cell = sheet_find(sheet_data, ID_HEADER)
    /\ observation_cell = sheet_find(sheet_data, OBSERVATION_HEADER)
    /\ category_cell = sheet_find(sheet_data, CATEGORY_HEADER)
    /\ num_participants \in 0..MaxCounted
    /\ line_index \in (0 - LineMargin)..(Len(sheet_data) - 1 + LineMargin)
    /\ study_name = normalize_study_name(Cell_study)
    /\ timestamps = <<>>
    /\ extracted = <<>>

\* spreadsheet.get_line_timestamps lines 596-685, called once
LineCall ==
    /\ pc = "get_line_timestamps"
    /\ timestamps' = get_line_timestamps(sheet_data, id_cell, observation_cell,
                                         num_participants, line_index, study_name)
    /\ pc' = "return"
    /\ UNCHANGED <<sheet_data, col_count, title, header_row, num_participants, mode,
                   range_start, range_end, id_cell, observation_cell, category_cell,
                   study_name, line_index, extracted>>
    /\ UNCHANGED otherThanSheet

LineNext == LineCall

SpecLineInit ==
    /\ pc = "get_line_timestamps"
    /\ warnings = <<>>
    /\ LineInit
    /\ ParseIdle
    /\ SanitizeIdle
    /\ FilesIdle
    /\ SelectIdle
    /\ RunIdle
    /\ BrowseIdle
    /\ VERBOSE = TRUE

SpecLine == SpecLineInit /\ [][LineNext]_vars

\* the 1-based columns of the row at line_index that get_line_timestamps is
\* to read: right of the ID column, num_participants of them, not empty
ColumnsRead ==
    {c \in (id_cell.col + 1)..(id_cell.col + num_participants) :
        c <= Len(sheet_data[line_index + 1]) /\ sheet_data[line_index + 1][c] # <<>>}

\* C24: get_line_timestamps returns an empty list for a row index outside
\* the grid; otherwise it returns, from left to right, exactly one issue for
\* each non-empty cell of the row in the num_participants columns right of
\* the ID column, with that cell's 1-based row, column and text, the row's
\* Observation value as description, the value left of the Observation
\* column as category (empty when there is no such column) and the header
\* row's value of the cell's column as participant.
C24_OneIssuePerNonEmptyCell ==
    pc = "return" =>
        IF line_index < 0 \/ line_index >= Len(sheet_data) THEN timestamps = <<>>
        ELSE /\ Len(timestamps) = Cardinality(ColumnsRead)
             /\ \A n \in 1..Len(timestamps) :
                   /\ timestamps[n].cell.col \in ColumnsRead
                   /\ timestamps[n].cell.row = line_index + 1
                   /\ timestamps[n].cell.value
                          = sheet_data[line_index + 1][timestamps[n].cell.col]
                   /\ timestamps[n].desc = sheet_data[line_index + 1][observation_cell.col]
                   /\ timestamps[n].category
                          = IF observation_cell.col > 1
                            THEN sheet_data[line_index + 1][observation_cell.col - 1]
                            ELSE <<>>
                   /\ timestamps[n].participant
                          = sheet_data[id_cell.row][timestamps[n].cell.col]
                   /\ timestamps[n].study = study_name
             /\ \A n \in 1..(Len(timestamps) - 1) :
                   timestamps[n].cell.col < timestamps[n + 1].cell.col

\* an issue for a cell of blanks, after an empty cell was passed over, in a
\* sheet without a column left of Observation
C24_Witness ==
    /\ pc = "return"
    /\ observation_cell.col = 1
    /\ Len(timestamps) = 1
    /\ timestamps[1].cell.value = <<" ">>
    /\ timestamps[1].category = <<>>
    /\ timestamps[1].cell.col = id_cell.col + 2

-----------------------------------------------------------------------------
(* The issues of the selection modes, checked under SpecSelect *)

\* C28: every issue that category mode returns has a category whose
\* trimmed text is one of the selected categories.
C28_IssueCarriesSelectedCategory ==
    (mode = "category" /\ pc \in {"generate_category_timestamps", "return"}) =>
        \A n \in 1..Len(timestamps) :
            \E k \in 1..Len(selected_categories) :
                strip(timestamps[n].category) = selected_categories[k]

\* C29: no issue of any selection mode has its cell in the header row.
C29_NoIssueFromHeaderRow ==
    id_cell.found => \A n \in 1..Len(timestamps) : timestamps[n].cell.row # id_cell.row

-----------------------------------------------------------------------------
(* spreadsheet.browse_spreadsheet: the rows shown and the navigation loop *)

\* config.py line 35
BROWSE_LINES_TO_DISPLAY == 5

\* data rows of the longest sheet browsed: more than one page
LongRows == 7

otherThanBrowse ==
    <<parseVars, sanitizeVars, filesVars, selectVars, runVars, warnings, title, mode,
      range_start, range_end, study_name, line_index, timestamps, extracted>>

Max(a, b) == IF a >= b THEN a ELSE b

Min(a, b) == IF a <= b THEN a ELSE b

\* display_rows(start_row, num_rows), lines 760-806: the 0-based rows shown
display_rows(start_row, num_rows, last) ==
    [k \in 1..Max(0, Min(start_row + num_rows - 1, last) - start_row + 1) |->
        start_row + k - 1]

\* int(s) for the texts typed: an optional sign and decimal digits, or ValueError
int(s) ==
    LET signed == s # <<>> /\ s[1] \in {"-", "+"}
        digits == IF signed THEN Tail(s) ELSE s
    IN IF digits = <<>> \/ ~AllDigits(digits)
       THEN [raised |-> TRUE, value |-> 0]
       ELSE [raised |-> FALSE,
             value |-> IF signed /\ s[1] = "-" THEN 0 - NumberOf(digits)
                       ELSE NumberOf(digits)]

Typed_quit == <<"q", "u", "i", "t">>
Typed_up == <<"u", "p">>
Typed_down == <<"d", "o", "w", "n">>
Typed_pageup == <<"p", "a", "g", "e", "u", "p">>
Typed_pagedown == <<"p", "a", "g", "e", "d", "o", "w", "n">>
Typed_jump == <<"j", "u", "m", "p">>
Typed_open == <<"o", "p", "e", "n">>

\* lines 814, 817, 823, 829, 836, 858: the texts each branch of the loop takes
QuitCommands == {Typed_quit, <<"q">>}
UpCommands == {Typed_up, <<"u">>}
DownCommands == {Typed_down, <<"d">>, <<>>}
PageUpCommands == {Typed_pageup, <<"p", "u">>}
PageDownCommands == {Typed_pagedown, <<"p", "d">>}
OpenCommands == {Typed_open, <<"o">>}

\* line 843
IsJump(command) ==
    IsPrefix(Typed_jump \o <<" ">>, command) \/ IsPrefix(<<"j", " ">>, command)

\* what is typed at the prompt of a sheet of the given number of rows
Typed(rows) ==
    QuitCommands \cup UpCommands \cup DownCommands \cup PageUpCommands
    \cup PageDownCommands \cup OpenCommands
    \cup {<<" ", "Q", " ">>, <<"U", "p">>, <<" ">>, <<"x">>, Typed_jump, <<"j", "2">>}
    \cup {Typed_jump \o <<" ">> \o str(n) : n \in 0..(rows + 1)}
    \cup {<<"j", " ">> \o str(n) : n \in {1, rows}}
    \cup {<<"J", " ", " ", "2", " ", "9">>, <<"j", " ", "-", "1">>, <<"j", " ", "x">>,
          <<"j", " ", "2", "x">>}

\* line 812: input('\n>> ').strip().lower()
Command(typed) == lower(strip(typed))

BrowseSheets ==
    SelectSheets
    \cup {top \o <<Header_full>> \o [n \in 1..LongRows |-> FullRow(Header_full)] :
            top \in {<<>>, <<TitleRow(Header_full)>>}}

BrowseInit ==
    /\ sheet_data \in BrowseSheets
    /\ col_count \in Len(sheet_data[1])..(Len(sheet_data[1]) + ExtraCols)
    /\ title = Title_spreadsheet
    /\ header_row = <<>>
    /\ num_participants = 0
    /\ mode = "none"
    /\ range_start = 0
    /\ range_end = 0
    /\ id_cell = None
    /\ observation_cell = None
    /\ category_cell = None
    /\ study_name = <<>>
    /\ line_index = 0
    /\ timestamps = <<>>
    /\ extracted = <<>>
    /\ BrowseIdle

\* lines 715-746 and 809: the checks before the loop, the bounds of the data
\* rows and the first rows shown
BrowseStart ==
    /\ pc = "browse_spreadsheet"
    /\ LET idc == sheet_find(sheet_data, ID_HEADER)
           obs == sheet_find(sheet_data, OBSERVATION_HEADER)
           cat == sheet_find(sheet_data, CATEGORY_HEADER)
           row == row_values(sheet_data, idc.row)
           counted == get_num_participants(row, col_count)
       IN IF ~idc.found \/ ~obs.found \/ ~cat.found
          THEN /\ pc' = "return"
               /\ UNCHANGED <<id_cell, observation_cell, category_cell, header_row,
                              num_participants, first_data_row, last_data_row,
                              current_row, displayed>>
          ELSE /\ id_cell' = idc
               /\ observation_cell' = obs
               /\ category_cell' = cat
               /\ IF Len(sheet_data) <= 1
                  THEN /\ pc' = "return"
                       /\ UNCHANGED <<header_row, num_participants, first_data_row,
                                      last_data_row, current_row, displayed>>
                  ELSE /\ header_row' = row
                       /\ IF counted.raised \/ counted.value = 0
                          THEN /\ pc' = IF counted.raised THEN "IndexError" ELSE "return"
                               /\ num_participants' = 0
                               /\ UNCHANGED <<first_data_row, last_data_row,
                                              current_row, displayed>>
                          ELSE /\ num_participants' = counted.value
                               /\ first_data_row' = idc.row
                               /\ last_data_row' = Len(sheet_data) - 1
                               /\ current_row' = idc.row
                               /\ displayed' = display_rows(idc.row,
                                                   BROWSE_LINES_TO_DISPLAY,
                                                   Len(sheet_data) - 1)
                               /\ pc' = "input"
    /\ UNCHANGED <<sheet_data, col_count, user_input>>
    /\ UNCHANGED otherThanBrowse

\* the loop moves to new_row and shows the rows from it, or stays and shows
\* nothing new
MoveTo(new_row) ==
    /\ current_row' = new_row
    /\ displayed' = display_rows(new_row, BROWSE_LINES_TO_DISPLAY, last_data_row)

Stay == UNCHANGED <<current_row, displayed>>

BrowseFrame ==
    /\ UNCHANGED <<sheet_data, col_count, header_row, num_participants, id_cell,
                   observation_cell, category_cell, first_data_row, last_data_row>>
    /\ UNCHANGED otherThanBrowse

\* lines 814-816
BrowseQuit ==
    /\ pc = "input"
    /\ \E typed \in Typed(Len(sheet_data)) :
          /\ Command(typed) \in QuitCommands
          /\ user_input' = Command(typed)
    /\ pc' = "return"
    /\ Stay
    /\ BrowseFrame

\* lines 817-822
BrowseUp ==
    /\ pc = "input"
    /\ \E typed \in Typed(Len(sheet_data)) :
          /\ Command(typed) \in UpCommands
          /\ user_input' = Command(typed)
    /\ IF current_row > first_data_row THEN MoveTo(current_row - 1) ELSE Stay
    /\ pc' = "input"
    /\ BrowseFrame

\* lines 823-828
BrowseDown ==
    /\ pc = "input"
    /\ \E typed \in Typed(Len(sheet_data)) :
          /\ Command(typed) \in DownCommands
          /\ user_input' = Command(typed)
    /\ IF current_row < last_data_row THEN MoveTo(current_row + 1) ELSE Stay
    /\ pc' = "input"
    /\ BrowseFrame

\* lines 829-835
BrowsePageUp ==
    /\ pc = "input"
    /\ \E typed \in Typed(Len(sheet_data)) :
          /\ Command(typed) \in PageUpCommands
          /\ user_input' = Command(typed)
    /\ LET new_row == Max(first_data_row, current_row - BROWSE_LINES_TO_DISPLAY)
       IN IF new_row # current_row THEN MoveTo(new_row) ELSE Stay
    /\ pc' = "input"
    /\ BrowseFrame

\* lines 836-842
BrowsePageDown ==
    /\ pc = "input"
    /\ \E typed \in Typed(Len(sheet_data)) :
          /\ Command(typed) \in PageDownCommands
          /\ user_input' = Command(typed)
    /\ LET new_row == Min(last_data_row, current_row + BROWSE_LINES_TO_DISPLAY)
       IN IF new_row # current_row THEN MoveTo(new_row) ELSE Stay
    /\ pc' = "input"
    /\ BrowseFrame

\* lines 843-859: 0-based target of the jump typed, or -1 for a text that is
\* not a number
TargetRow(command) ==
    LET parts == split(command)
    IN IF Len(parts) < 2 \/ int(parts[2]).raised THEN -1 ELSE int(parts[2]).value - 1

BrowseJump ==
    /\ pc = "input"
    /\ \E typed \in Typed(Len(sheet_data)) :
          /\ IsJump(Command(typed))
          /\ user_input' = Command(typed)
          /\ LET parts == split(Command(typed))
                 target_row == TargetRow(Command(typed))
             IN IF Len(parts) < 2 \/ int(parts[2]).raised THEN Stay
                ELSE IF target_row < first_data_row \/ target_row > last_data_row
                     THEN Stay
                     ELSE MoveTo(target_row)
    /\ pc' = "input"
    /\ BrowseFrame

\* lines 860-869
BrowseOpen ==
    /\ pc = "input"
    /\ \E typed \in Typed(Len(sheet_data)) :
          /\ Command(typed) \in OpenCommands
          /\ user_input' = Command(typed)
    /\ Stay
    /\ pc' = "input"
    /\ BrowseFrame

\* lines 870-872
BrowseUnknown ==
    /\ pc = "input"
    /\ \E typed \in Typed(Len(sheet_data)) :
          /\ Command(typed) \notin QuitCommands \cup UpCommands \cup DownCommands
                \cup PageUpCommands \cup PageDownCommands \cup OpenCommands
          /\ ~IsJump(Command(typed))
          /\ user_input' = Command(typed)
    /\ Stay
    /\ pc' = "input"
    /\ BrowseFrame

BrowseNext ==
    \/ BrowseStart
    \/ BrowseQuit
    \/ BrowseUp
    \/ BrowseDown
    \/ BrowsePageUp
    \/ BrowsePageDown
    \/ BrowseJump
    \/ BrowseOpen
    \/ BrowseUnknown

SpecBrowseInit ==
    /\ pc = "browse_spreadsheet"
    /\ warnings = <<>>
    /\ BrowseInit
    /\ ParseIdle
    /\ SanitizeIdle
    /\ FilesIdle
    /\ SelectIdle
    /\ RunIdle
    /\ VERBOSE = TRUE

SpecBrowse == SpecBrowseInit /\ [][BrowseNext]_vars

\* C30: in the loop of browse mode the current row is a data row, from the
\* first row below the header to the last row of the grid.
C30_CurrentRowWithinDataRows ==
    pc = "input" => first_data_row <= current_row /\ current_row <= last_data_row

====
